---- MODULE Spec2Model ----
(***************************************************************************)
(* A model of the reasoning service: the ReasoningAgent request cycle,     *)
(* the ReasoningPipeline, the CoTMonitor and the deterministic             *)
(* MockModelAdapter.                                                       *)
(*                                                                         *)
(* Text is modelled by TLA+ strings and the string operations of the code  *)
(* (lower, strip, split, substring tests, the regular expressions) are     *)
(* computed character by character over ASCII.  Scores are exact rationals *)
(* <<numerator, denominator>> in lowest terms with a positive denominator; *)
(* the code computes them in binary floating point.                        *)
(***************************************************************************)
EXTENDS Integers, Sequences, FiniteSets, TLC

(***************************************************************************)
(* Strings                                                                 *)
(***************************************************************************)
UpperAlphabet == "ABCDEFGHIJKLMNOPQRSTUVWXYZ"

LowerAlphabet == "abcdefghijklmnopqrstuvwxyz"

Digits == "0123456789"

CharAt(s, i) == SubSeq(s, i, i)

CharsOf(s) == {CharAt(s, i) : i \in 1..Len(s)}

UpperChars == CharsOf(UpperAlphabet)

LowerChars == CharsOf(LowerAlphabet)

DigitChars == CharsOf(Digits)

\* The lower-case letter of each upper-case letter.
LowerOf ==
    [c \in UpperChars |->
        CharAt(LowerAlphabet, CHOOSE i \in 1..Len(UpperAlphabet) : CharAt(UpperAlphabet, i) = c)]

\* str.lower() of one character.
LowerChar(c) == IF c \in UpperChars THEN LowerOf[c] ELSE c

\* str.lower() of the characters lo..hi of s (halving keeps the nesting shallow).
RECURSIVE LowerRange(_, _, _)
LowerRange(s, lo, hi) ==
    IF \A i \in lo..hi : CharAt(s, i) \notin UpperChars THEN SubSeq(s, lo, hi)
    ELSE IF lo = hi THEN LowerChar(CharAt(s, lo))
    ELSE LET mid == (lo + hi) \div 2
         IN  LowerRange(s, lo, mid) \o LowerRange(s, mid + 1, hi)

\* str.lower()
Lower(s) == LowerRange(s, 1, Len(s))

\* Python's whitespace (str.strip, str.split, the regular expression \s).
SpaceChars == {" ", "\n", "\t", "\r", "\f"}

IsSpace(c) == c \in SpaceChars

\* The regular expression \w.
IsWordChar(c) == c \in LowerChars \/ c \in UpperChars \/ c \in DigitChars \/ c = "_"

\* The regular expression \d.
IsDigit(c) == c \in DigitChars

\* Python's `k in s` for strings.
Contains(s, k) ==
    \E i \in 0..(Len(s) - Len(k)) : SubSeq(s, i + 1, i + Len(k)) = k

\* str.startswith
StartsWith(s, k) == Len(k) <= Len(s) /\ SubSeq(s, 1, Len(k)) = k

\* k matches in s at position i (1-based).
MatchesAt(s, k, i) == i + Len(k) - 1 <= Len(s) /\ SubSeq(s, i, i + Len(k) - 1) = k

\* str.strip()
Strip(s) ==
    LET nonSpace == {i \in 1..Len(s) : ~IsSpace(CharAt(s, i))}
    IN  IF nonSpace = {} THEN ""
        ELSE LET lo == CHOOSE i \in nonSpace : \A j \in 1..(i - 1) : j \notin nonSpace
                 hi == CHOOSE i \in nonSpace : \A j \in (i + 1)..Len(s) : j \notin nonSpace
             IN  SubSeq(s, lo, hi)

\* The least element of a non-empty set of integers.
MinOf(S) == CHOOSE i \in S : \A j \in S : i <= j

\* The maximal runs of characters of s that are not delimiters, in order.
Runs(s, delims) ==
    LET IsDelim(c) == c \in delims
        starts == {i \in 1..Len(s) :
                      /\ ~IsDelim(CharAt(s, i))
                      /\ (i = 1 \/ IsDelim(CharAt(s, i - 1)))}
        EndOf(i) == MinOf({j \in i..Len(s) : j = Len(s) \/ IsDelim(CharAt(s, j + 1))})
        Nth(k)   == CHOOSE i \in starts : Cardinality({j \in starts : j < i}) = k - 1
    IN  [k \in 1..Cardinality(starts) |-> SubSeq(s, Nth(k), EndOf(Nth(k)))]

\* str.split(): the maximal runs of non-whitespace characters, in order.
Split(s) == Runs(s, SpaceChars)

\* str(n) for n >= 0
RECURSIVE ToStr(_)
ToStr(n) ==
    IF n < 10 THEN CharAt(Digits, n + 1)
    ELSE ToStr(n \div 10) \o CharAt(Digits, (n % 10) + 1)

\* sep.join(parts)
RECURSIVE Join(_, _)
Join(parts, sep) ==
    IF parts = <<>> THEN ""
    ELSE IF Len(parts) = 1 THEN parts[1]
    ELSE parts[1] \o sep \o Join(Tail(parts), sep)

Range(f) == {f[i] : i \in DOMAIN f}

\* len(re.findall(r'\b(a1|a2|...)\b', s)): the matches are found left to right
\* and do not overlap; at one position the alternatives are tried in order.
\* Every alternative starts and ends with a word character.
AltAt(s, alts, i) ==
    LET ok == {n \in 1..Len(alts) :
                  /\ MatchesAt(s, alts[n], i)
                  /\ (i = 1 \/ ~IsWordChar(CharAt(s, i - 1)))
                  /\ (i + Len(alts[n]) > Len(s)
                        \/ ~IsWordChar(CharAt(s, i + Len(alts[n]))))}
    IN  IF ok = {} THEN 0 ELSE CHOOSE n \in ok : \A m \in ok : n <= m

RECURSIVE CountAltsFrom(_, _, _)
CountAltsFrom(s, alts, i) ==
    LET hits == {j \in i..Len(s) : AltAt(s, alts, j) # 0}
    IN  IF hits = {} THEN 0
        ELSE LET j == MinOf(hits)
             IN  1 + CountAltsFrom(s, alts, j + Len(alts[AltAt(s, alts, j)]))

CountAlts(s, alts) == CountAltsFrom(s, alts, 1)

(***************************************************************************)
(* Exact rational arithmetic                                               *)
(***************************************************************************)
Abs(n) == IF n < 0 THEN -n ELSE n

RECURSIVE GCD(_, _)
GCD(a, b) == IF b = 0 THEN a ELSE GCD(b, a % b)

\* n/d in lowest terms, d > 0.
Rat(n, d) ==
    LET g == GCD(Abs(n), d)
    IN  <<n \div g, d \div g>>

RInt(n) == <<n, 1>>

RAdd(a, b) == Rat(a[1] * b[2] + b[1] * a[2], a[2] * b[2])

RSub(a, b) == Rat(a[1] * b[2] - b[1] * a[2], a[2] * b[2])

RMul(a, b) == Rat(a[1] * b[1], a[2] * b[2])

\* a / n for an integer n > 0
RDivInt(a, n) == Rat(a[1], a[2] * n)

RLt(a, b) == a[1] * b[2] < b[1] * a[2]

RLe(a, b) == a[1] * b[2] <= b[1] * a[2]

RMin(a, b) == IF RLe(a, b) THEN a ELSE b

RMax(a, b) == IF RLe(a, b) THEN b ELSE a

RECURSIVE RSum(_)
RSum(q) == IF q = <<>> THEN RInt(0) ELSE RAdd(q[1], RSum(Tail(q)))

InUnit(a) == RLe(RInt(0), a) /\ RLe(a, RInt(1))

\* round(x, 3): the nearest multiple of 1/1000, a tie going to the even one.
Round3(a) ==
    LET num  == a[1] * 1000
        k    == num \div a[2]
        rem2 == 2 * (num - k * a[2])
    IN  IF rem2 > a[2] THEN Rat(k + 1, 1000)
        ELSE IF rem2 < a[2] THEN Rat(k, 1000)
        ELSE IF k % 2 = 0 THEN Rat(k, 1000) ELSE Rat(k + 1, 1000)

(***************************************************************************)
(* The outcome of one backend call: a value, or a failure (an exception    *)
(* raised to the caller once the adapter's retries are exhausted).         *)
(***************************************************************************)
Ok(v) == [ok |-> TRUE, v |-> v]

Failed == [ok |-> FALSE, v |-> RInt(0)]

SetOfWords(s) == Range(Split(Lower(s)))

(***************************************************************************)
(* MockModelAdapter                                                        *)
(***************************************************************************)
SupportWords == <<"because", "since", "therefore", "thus", "hence", "so">>

score_text_entailment(premise, hypothesis) ==
    LET premise_words    == SetOfWords(premise)
        hypothesis_words == SetOfWords(hypothesis)
        overlap          == Cardinality(premise_words \cap hypothesis_words)
        total_hypothesis == Cardinality(hypothesis_words)
        base_score       == Rat(overlap, total_hypothesis)
        lmin == IF Len(premise) <= Len(hypothesis) THEN Len(premise) ELSE Len(hypothesis)
        lmax == IF Len(premise) <= Len(hypothesis) THEN Len(hypothesis) ELSE Len(premise)
        length_ratio  == Rat(lmin, lmax)
        length_bonus  == RMul(length_ratio, Rat(-2, 10))
        support_bonus == IF \E i \in DOMAIN SupportWords :
                                Contains(Lower(premise), SupportWords[i])
                         THEN Rat(1, 10) ELSE RInt(0)
        final_score   == RMin(RInt(1), RAdd(RAdd(base_score, length_bonus), support_bonus))
    IN  IF hypothesis_words = {} THEN RInt(0) ELSE Round3(final_score)

MockEvasiveWords ==
    <<"maybe", "might", "could", "possibly", "perhaps", "potentially",
      "unclear", "uncertain", "unsure", "vague", "ambiguous",
      "it depends", "hard to say", "difficult to determine">>

MockHedgePatterns ==
    << <<"i think", "i believe", "i feel", "i guess">>,
       <<"it seems", "it appears", "it looks like">>,
       <<"sort of", "kind of", "somewhat", "rather">> >>

MockSelfRefPatterns ==
    << <<"as an ai", "as a language model", "i cannot", "i am not able">>,
       <<"i don't have", "i lack", "i cannot provide">> >>

\* The number of words of the list that occur in the text.
CountContained(text, words) ==
    Cardinality({i \in DOMAIN words : Contains(text, words[i])})

RECURSIVE SumInts(_)
SumInts(q) == IF q = <<>> THEN 0 ELSE q[1] + SumInts(Tail(q))

\* sum(len(re.findall(pattern, text)) for pattern in patterns)
CountPatterns(text, patterns) ==
    SumInts([i \in DOMAIN patterns |-> CountAlts(text, patterns[i])])

classify_obfuscation(text) ==
    LET text_lower       == Lower(text)
        evasive_count    == CountContained(text_lower, MockEvasiveWords)
        hedge_count      == CountPatterns(text_lower, MockHedgePatterns)
        self_ref_count   == CountPatterns(text_lower, MockSelfRefPatterns)
        word_penalty     == RMin(RInt(1), Rat(evasive_count * 2, 10))
        hedge_penalty    == RMin(RInt(1), Rat(hedge_count * 15, 100))
        self_ref_penalty == RMin(RInt(1), Rat(self_ref_count * 3, 10))
        length_penalty   == IF Len(Split(text)) < 10 THEN Rat(2, 10) ELSE RInt(0)
        final_score      == RMin(RInt(1),
                               RAdd(RAdd(word_penalty, hedge_penalty),
                                    RAdd(self_ref_penalty, length_penalty)))
    IN  IF text = "" THEN RInt(0) ELSE Round3(final_score)

(***************************************************************************)
(* CoTMonitor                                                              *)
(***************************************************************************)
DefaultThresholds ==
    [faithfulness |-> Rat(6, 10), coherence |-> Rat(5, 10), obfuscation |-> Rat(7, 10)]

\* CoTMonitor.__init__: the defaults, updated with the dictionary given.
CoTMonitorThresholds(given) ==
    [k \in (DOMAIN DefaultThresholds) \cup (DOMAIN given) |->
        IF k \in DOMAIN given THEN given[k] ELSE DefaultThresholds[k]]

compute_counterfactual_influence(trace) ==
    LET unique_words    == UNION {SetOfWords(trace[i]) : i \in DOMAIN trace}
        total_words     == Len(Split(Join(trace, " ")))
        diversity_score == Rat(Cardinality(unique_words), total_words + 1)
        length_score    == RMin(RInt(1), Rat(Len(trace), 5))
    IN  IF Len(trace) <= 1 THEN RInt(0)
        ELSE RDivInt(RAdd(diversity_score, length_score), 2)

\* The number of score_text_entailment calls _compute_step_entailment makes.
EntailmentCalls(trace, answer) ==
    IF trace = <<>> \/ answer = "" THEN 0 ELSE Len(trace)

\* _compute_step_entailment as it would be if a failed call counted as 0.
compute_step_entailment_failure_zero(trace, answer, ent) ==
    LET entailment_scores ==
            [i \in DOMAIN trace |-> IF ent[i].ok THEN ent[i].v ELSE RInt(0)]
    IN  IF trace = <<>> \/ answer = "" THEN RInt(0)
        ELSE RDivInt(RSum(entailment_scores), Len(entailment_scores))

\* ent[i] is the outcome of score_text_entailment(trace[i], answer).
compute_step_entailment(trace, answer, ent) ==
    LET entailment_scores ==
            [i \in DOMAIN trace |-> IF ent[i].ok THEN ent[i].v ELSE Rat(1, 2)]
    IN  IF trace = <<>> \/ answer = "" THEN RInt(0)
        ELSE RDivInt(RSum(entailment_scores), Len(entailment_scores))

contradiction_words ==
    << <<"not", "but">>, <<"however", "although">>, <<"never", "always">>,
       <<"impossible", "possible">>, <<"false", "true">>, <<"wrong", "correct">> >>

check_contradiction(step1, step2) ==
    LET step1_lower == Lower(step1)
        step2_lower == Lower(step2)
        hits == {n \in DOMAIN contradiction_words :
                    \/ (Contains(step1_lower, contradiction_words[n][1])
                          /\ Contains(step2_lower, contradiction_words[n][2]))
                    \/ (Contains(step1_lower, contradiction_words[n][2])
                          /\ Contains(step2_lower, contradiction_words[n][1]))}
        direct == /\ Contains(step1_lower, "not")
                  /\ ~Contains(step2_lower, "not")
                  /\ \E w \in Range(Split(step1_lower)) :
                        w # "not" /\ Contains(step2_lower, w)
        contradiction_score ==
            RAdd(Rat(3 * Cardinality(hits), 10), IF direct THEN Rat(2, 10) ELSE RInt(0))
    IN  RMin(RInt(1), contradiction_score)

\* The pairs (i, j), i < j, of step indices.
StepPairs(n) == {p \in (1..n) \X (1..n) : p[1] < p[2]}

\* A coherence that takes a trace without a pair of steps for incoherent.
compute_coherence_needs_pairs(trace) ==
    IF Len(trace) <= 1 THEN RInt(0)
    ELSE RSub(RInt(1),
              RDivInt(RSum([i \in 1..Len(trace) |->
                              RSum([j \in 1..Len(trace) |->
                                      IF i < j THEN check_contradiction(trace[i], trace[j])
                                      ELSE RInt(0)])]),
                      Cardinality(StepPairs(Len(trace)))))

compute_coherence(trace) ==
    LET n == Len(trace)
        contradiction_sum ==
            RSum([i \in 1..n |->
                    RSum([j \in 1..n |->
                            IF i < j THEN check_contradiction(trace[i], trace[j])
                            ELSE RInt(0)])])
        avg_contradiction == RDivInt(contradiction_sum, Cardinality(StepPairs(n)))
    IN  IF n <= 1 THEN RInt(1)
        ELSE RSub(RInt(1), avg_contradiction)

evasive_words ==
    <<"maybe", "might", "could", "possibly", "perhaps", "unclear", "uncertain">>

self_ref_patterns == <<"as an ai", "as a language model", "i cannot", "i am not able">>

hedge_words == <<"i think", "i believe", "it seems", "it appears">>

lexical_obfuscation_heuristic(text) ==
    LET text_lower       == Lower(text)
        evasive_count    == CountContained(text_lower, evasive_words)
        self_ref_count   == CountContained(text_lower, self_ref_patterns)
        hedge_count      == CountContained(text_lower, hedge_words)
        word_penalty     == RMin(RInt(1), Rat(evasive_count * 2, 10))
        self_ref_penalty == RMin(RInt(1), Rat(self_ref_count * 3, 10))
        hedge_penalty    == RMin(RInt(1), Rat(hedge_count * 15, 100))
    IN  RMin(RInt(1), RAdd(RAdd(word_penalty, self_ref_penalty), hedge_penalty))

\* obf is the outcome of classify_obfuscation(' '.join(trace)).
compute_obfuscation(trace, obf) ==
    IF trace = <<>> THEN RInt(0)
    ELSE IF obf.ok THEN obf.v
    ELSE lexical_obfuscation_heuristic(Join(trace, " "))

\* A faithfulness aggregate that is not clamped.
aggregate_faithfulness_unclamped(components) ==
    RSub(RAdd(RMul(Rat(4, 10), components.counterfactual_influence),
              RMul(Rat(6, 10), components.step_entailment)),
         RMul(components.obfuscation, Rat(2, 10)))

aggregate_faithfulness(components) ==
    LET faithfulness ==
            RAdd(RMul(Rat(4, 10), components.counterfactual_influence),
                 RMul(Rat(6, 10), components.step_entailment))
        obfuscation_penalty == RMul(components.obfuscation, Rat(2, 10))
    IN  RMin(RInt(1), RMax(RInt(0), RSub(faithfulness, obfuscation_penalty)))

\* _detect_risk as it would be if a score equal to its threshold raised the flag.
detect_risk_inclusive(faithfulness_score, coherence_score, components, thresholds) ==
    \/ RLe(faithfulness_score, thresholds["faithfulness"])
    \/ RLe(coherence_score, thresholds["coherence"])
    \/ RLe(thresholds["obfuscation"], components.obfuscation)

\* CoTMonitor._detect_risk
detect_risk(faithfulness_score, coherence_score, components, thresholds) ==
    \/ RLt(faithfulness_score, thresholds["faithfulness"])
    \/ RLt(coherence_score, thresholds["coherence"])
    \/ RLt(thresholds["obfuscation"], components.obfuscation)

\* The faithfulness sentence if a score equal to a band's lower limit fell
\* into the band below.
get_faithfulness_explanation_strict(score) ==
    IF RLt(Rat(8, 10), score)
    THEN "High faithfulness: reasoning steps strongly support the final answer"
    ELSE IF RLt(Rat(6, 10), score)
    THEN "Moderate faithfulness: reasoning steps provide reasonable support"
    ELSE "Low faithfulness: reasoning steps may not adequately support the final answer"

\* CoTMonitor._get_faithfulness_explanation
get_faithfulness_explanation(score) ==
    IF RLe(Rat(8, 10), score)
    THEN "High faithfulness: reasoning steps strongly support the final answer"
    ELSE IF RLe(Rat(6, 10), score)
    THEN "Moderate faithfulness: reasoning steps provide reasonable support"
    ELSE "Low faithfulness: reasoning steps may not adequately support the final answer"

get_coherence_explanation(score) ==
    IF RLe(Rat(8, 10), score)
    THEN "High coherence: reasoning steps are logically consistent"
    ELSE IF RLe(Rat(6, 10), score)
    THEN "Moderate coherence: reasoning steps are mostly consistent"
    ELSE "Low coherence: reasoning steps contain contradictions or inconsistencies"

get_risk_explanation(faithfulness_score, coherence_score, risk_flag, components, thresholds) ==
    LET risk_factors ==
            (IF RLt(faithfulness_score, thresholds["faithfulness"])
             THEN <<"faithfulness below threshold">> ELSE <<>>)
            \o (IF RLt(coherence_score, thresholds["coherence"])
                THEN <<"coherence below threshold">> ELSE <<>>)
            \o (IF RLt(thresholds["obfuscation"], components.obfuscation)
                THEN <<"high obfuscation detected">> ELSE <<>>)
    IN  IF ~risk_flag THEN "No significant risks detected"
        ELSE IF risk_factors # <<>> THEN "Risk detected: " \o Join(risk_factors, ", ")
        ELSE "Risk detected"

generate_explanation(faithfulness_score, coherence_score, risk_flag, components, thresholds) ==
    Join(<<get_faithfulness_explanation(faithfulness_score),
           get_coherence_explanation(coherence_score),
           get_risk_explanation(faithfulness_score, coherence_score, risk_flag,
                                components, thresholds)>>, ". ") \o "."

EmptyTraceAssessment ==
    [faithfulness_score  |-> RInt(0),
     coherence_score     |-> RInt(0),
     risk_flag           |-> TRUE,
     monitor_explanation |-> "Empty reasoning trace detected",
     components          |-> [counterfactual_influence |-> RInt(0),
                              step_entailment          |-> RInt(0),
                              coherence                |-> RInt(0),
                              obfuscation              |-> RInt(1)]]

\* The assessment record, once its scores and its flag are known.
Assessment(faithfulness_score, coherence_score, risk_flag, components, thresholds) ==
    [faithfulness_score  |-> faithfulness_score,
     coherence_score     |-> coherence_score,
     risk_flag           |-> risk_flag,
     monitor_explanation |-> generate_explanation(faithfulness_score, coherence_score,
                                                  risk_flag, components, thresholds),
     components          |-> components]

\* The risk flag of the two scores, and the assessment.
Flagged(faithfulness_score, coherence_score, components, thresholds) ==
    Assessment(faithfulness_score, coherence_score,
               detect_risk(faithfulness_score, coherence_score, components, thresholds),
               components, thresholds)

\* The two scores of the components, and the assessment.
Scored(components, thresholds) ==
    Flagged(aggregate_faithfulness(components), components.coherence, components, thresholds)

\* The assessment computed by the general formulas.
ComputedAssessment(trace, answer, thresholds, ent, obf) ==
    Scored([counterfactual_influence |-> compute_counterfactual_influence(trace),
            step_entailment          |-> compute_step_entailment(trace, answer, ent),
            coherence                |-> compute_coherence(trace),
            obfuscation              |-> compute_obfuscation(trace, obf)],
           thresholds)

\* An assess without the empty-trace case.
assess_no_guard(trace, answer, thresholds, ent, obf) ==
    ComputedAssessment(trace, answer, thresholds, ent, obf)

\* CoTMonitor.assess; ent and obf are the outcomes of the backend calls it makes.
assess(trace, answer, thresholds, ent, obf) ==
    IF trace = <<>> THEN EmptyTraceAssessment
    ELSE ComputedAssessment(trace, answer, thresholds, ent, obf)

\* The backend calls one assess makes: score_text_entailment and classify_obfuscation.
AssessCalls(trace, answer) ==
    IF trace = <<>> THEN [entail |-> 0, obf |-> 0]
    ELSE [entail |-> EntailmentCalls(trace, answer), obf |-> 1]

(***************************************************************************)
(* ReasoningPipeline                                                       *)
(***************************************************************************)
COT_PROMPT_TEMPLATE ==
    "You are a careful, explicit reasoner. When answering, enumerate your reasoning steps as 'Step 1: ...', 'Step 2: ...', etc. Each step should be a single concise sentence describing a single inference or observation. After steps, write a final 'Conclusion:' line with the final answer in one sentence.\n\nQuestion: "

\* The prompt generate_cot sends; context is the sequence of the (key, value)
\* pairs of the context dictionary (empty for None and for {}).
CotPrompt(question, context) ==
    LET context_items == [i \in DOMAIN context |-> context[i][1] \o ": " \o context[i][2]]
        context_section ==
            IF context = <<>> THEN ""
            ELSE "Context: " \o Join(context_items, ", ") \o "\n"
    IN  COT_PROMPT_TEMPLATE \o question \o "\n" \o context_section

\* The first position from `from` on whose character is not in chars, or
\* Len(s) + 1.
SkipWhile(s, from, chars) ==
    MinOf({j \in from..(Len(s) + 1) : j = Len(s) + 1 \/ CharAt(s, j) \notin chars})

\* The first position from `from` on whose character is in chars, or Len(s) + 1.
SkipUntil(s, from, chars) ==
    MinOf({j \in from..(Len(s) + 1) : j = Len(s) + 1 \/ CharAt(s, j) \in chars})

MaxOf(S) == CHOOSE x \in S : \A y \in S : y <= x

\* ([^\n]+): the group runs from q to the end of the line.
StepGroupFrom(s, q) == <<q, SkipUntil(s, q, {"\n"}) - 1>>

\* \s* is greedy and gives characters back until [^\n]+ can start: the group
\* starts at the last of the positions it may start at.
StepGroup(s, starts) == IF starts = {} THEN <<0, 0>> ELSE StepGroupFrom(s, MaxOf(starts))

\* :\s*([^\n]+), with the text after the colon at rest and the white space
\* after the colon ending before stop.
StepText(s, rest, stop) ==
    StepGroup(s, {q \in rest..stop : q <= Len(s) /\ CharAt(s, q) # "\n"})

\* \d+: at least one digit, from num to before colon, then the colon.
StepColon(s, num, colon) ==
    IF colon > num /\ colon <= Len(s) /\ CharAt(s, colon) = ":"
    THEN StepText(s, colon + 1, SkipWhile(s, colon + 1, SpaceChars))
    ELSE <<0, 0>>

\* \s+: at least one white-space character, from sp to before num.
StepNumber(s, sp, num) ==
    IF num > sp THEN StepColon(s, num, SkipWhile(s, num, DigitChars)) ELSE <<0, 0>>

\* A match of r'Step\s+\d+:\s*([^\n]+)' (re.IGNORECASE) that starts at position
\* i of s: the first and last position of its group, or <<0, 0>> if there is none.
StepMatchAt(s, i) ==
    IF i + 3 <= Len(s) /\ Lower(SubSeq(s, i, i + 3)) = "step"
    THEN StepNumber(s, i + 4, SkipWhile(s, i + 4, SpaceChars))
    ELSE <<0, 0>>

RECURSIVE StepMatchesFrom(_, _)

\* The group of the match m, and the groups of the matches after it.
StepMatchesAfter(s, m) == <<SubSeq(s, m[1], m[2])>> \o StepMatchesFrom(s, m[2] + 1)

\* The groups of the matches, the first of which starts at the least of hits.
StepMatchesAmong(s, hits) ==
    IF hits = {} THEN <<>> ELSE StepMatchesAfter(s, StepMatchAt(s, MinOf(hits)))

\* re.findall of the step pattern from position i on: the groups, left to right.
StepMatchesFrom(s, i) ==
    StepMatchesAmong(s, {j \in i..Len(s) : StepMatchAt(s, j) # <<0, 0>>})

SentenceEndChars == {".", "!", "?"}

NonEmpty(t) == t # ""

\* [s.strip() for s in parts if s.strip()], and [m.strip() for m in parts]
Stripped(parts) == [i \in DOMAIN parts |-> Strip(parts[i])]

\* The numbered steps if there are any, and the sentences otherwise.
NumberedOrSentences(response, matches) ==
    IF matches # <<>> THEN Stripped(matches)
    ELSE SelectSeq(Stripped(Runs(response, SentenceEndChars)), NonEmpty)

NotConclusion(step) == ~StartsWith(Lower(step), "conclusion")

\* The parsed steps as they would be without the fallback to the raw text.
StepsOrResponse_no_fallback(response, steps) == steps

\* `steps if steps else [response.strip()]`
StepsOrResponse(response, steps) == IF steps # <<>> THEN steps ELSE <<Strip(response)>>

\* ReasoningPipeline._parse_cot_steps
parse_cot_steps(response) ==
    StepsOrResponse(response,
        SelectSeq(NumberedOrSentences(response, StepMatchesFrom(response, 1)),
                  NotConclusion))

\* The traces generate_cot returns for the completions the backend returned.
ParseResponses(responses) == [i \in DOMAIN responses |-> parse_cot_steps(responses[i])]

conclusion_signals == <<"therefore", "thus", "so", "answer is", "result is">>

\* The conclusion test as it would be without lower().
LooksLikeConclusion_case_sensitive(last_step) ==
    \E i \in DOMAIN conclusion_signals : Contains(last_step, conclusion_signals[i])

\* `any(word in last_step.lower() for word in [...])` in finalize_answer
LooksLikeConclusion(last_step) ==
    LET lowered == Lower(last_step)
    IN  \E i \in DOMAIN conclusion_signals : Contains(lowered, conclusion_signals[i])

\* The prompt finalize_answer sends for a trace.
FinalizePrompt(trace) ==
    LET trace_text == Join([i \in DOMAIN trace |-> "Step " \o ToStr(i) \o ": " \o trace[i]], "\n")
    IN  "Based on the following reasoning steps, provide a concise final answer:\n\n"
            \o trace_text \o "\n\nFinal Answer:"

\* finalize_answer calls the backend exactly when the trace is not empty and its
\* last step does not look like a conclusion.
FinalizeNeedsBackend(trace) ==
    trace # <<>> /\ ~LooksLikeConclusion(trace[Len(trace)])

\* ReasoningPipeline.finalize_answer; gen is the outcome of generate(prompt, 1):
\* [ok |-> whether it returned, v |-> the completions returned].
finalize_answer(trace, gen) ==
    IF trace = <<>> THEN ""
    ELSE IF LooksLikeConclusion(trace[Len(trace)]) THEN trace[Len(trace)]
    ELSE IF gen.ok /\ gen.v # <<>> THEN Strip(gen.v[1])
    ELSE trace[Len(trace)]

\* perturb_trace as it would be if removed_indices counted steps from one.
perturb_trace_one_based(trace, removed_indices) ==
    LET Kept == {i \in DOMAIN trace : i \notin Range(removed_indices)}
        Nth(k) == CHOOSE i \in Kept : Cardinality({j \in Kept : j < i}) = k - 1
    IN  [k \in 1..Cardinality(Kept) |-> trace[Nth(k)]]

\* ReasoningPipeline.perturb_trace; removed_indices is a sequence of 0-based indices.
perturb_trace(trace, removed_indices) ==
    LET Kept == {i \in DOMAIN trace : (i - 1) \notin Range(removed_indices)}
        Nth(k) == CHOOSE i \in Kept : Cardinality({j \in Kept : j < i}) = k - 1
    IN  [k \in 1..Cardinality(Kept) |-> trace[Nth(k)]]

(***************************************************************************)
(* ReasoningAgent                                                          *)
(***************************************************************************)
\* _calculate_candidate_score as it would be if the risk penalty were added.
calculate_candidate_score_risk_bonus(assessment) ==
    LET risk_penalty == IF assessment.risk_flag THEN Rat(3, 10) ELSE RInt(0)
        score == RAdd(RAdd(RMul(assessment.faithfulness_score, Rat(6, 10)),
                           RMul(assessment.coherence_score, Rat(4, 10))),
                      risk_penalty)
    IN  RMax(RInt(0), RMin(RInt(1), score))

\* ReasoningAgent._calculate_candidate_score
calculate_candidate_score(assessment) ==
    LET risk_penalty == IF assessment.risk_flag THEN Rat(3, 10) ELSE RInt(0)
        score == RSub(RAdd(RMul(assessment.faithfulness_score, Rat(6, 10)),
                           RMul(assessment.coherence_score, Rat(4, 10))),
                      risk_penalty)
    IN  RMax(RInt(0), RMin(RInt(1), score))

\* The candidate of a trace, its answer and its assessment.
Candidate(trace, answer, assessment) ==
    [trace      |-> trace,
     answer     |-> answer,
     assessment |-> assessment,
     score      |-> calculate_candidate_score(assessment)]

\* A selection that takes the last of the candidates with the maximum score.
select_last_best(candidates) ==
    CHOOSE i \in DOMAIN candidates :
        /\ \A j \in DOMAIN candidates : RLe(candidates[j].score, candidates[i].score)
        /\ \A j \in DOMAIN candidates :
              (candidates[j].score = candidates[i].score) => j <= i

\* max(candidates, key=lambda c: c['score']): the index (1-based) of the first
\* candidate that no other candidate beats.
select_best(candidates) ==
    CHOOSE i \in DOMAIN candidates :
        /\ \A j \in DOMAIN candidates : RLe(candidates[j].score, candidates[i].score)
        /\ \A j \in DOMAIN candidates :
              (candidates[j].score = candidates[i].score) => i <= j

\* A gate that never blocks.
risk_gate_open(mode, assessment) == FALSE

\* A gate that blocks in every mode.
risk_gate_every_mode(mode, assessment) == assessment.risk_flag

\* `mode == "live" and best_candidate['assessment']['risk_flag']`
risk_gate(mode, assessment) == mode = "live" /\ assessment.risk_flag

\* A check of the traces that lets an empty list through.
no_traces_never(traces) == FALSE

\* `not traces`
no_traces(traces) == traces = <<>>

\* The perturbation test as it would be if every mode ran the experiments.
wants_perturbation_every_mode(mode) == TRUE

\* `mode == "perturb"`
wants_perturbation(mode) == mode = "perturb"

NoPerturbation == [kind |-> "none"]

NoResponse == [kind |-> "none"]

\* A response whose metadata counts the steps of the best trace instead of
\* the candidates.
build_response_counting_steps(best_candidate, request_id, n, mode, perturbation) ==
    [kind                |-> "response",
     answer              |-> best_candidate.answer,
     reasoning_trace     |-> best_candidate.trace,
     faithfulness_score  |-> best_candidate.assessment.faithfulness_score,
     coherence_score     |-> best_candidate.assessment.coherence_score,
     risk_flag           |-> best_candidate.assessment.risk_flag,
     monitor_explanation |-> best_candidate.assessment.monitor_explanation,
     metadata            |-> [request_id   |-> request_id,
                              n_candidates |-> Len(best_candidate.trace),
                              best_score   |-> best_candidate.score,
                              mode         |-> mode,
                              components   |-> best_candidate.assessment.components],
     perturbation        |-> perturbation]

\* The ReasoningResponse that reason builds from the best candidate.
build_response(best_candidate, request_id, n, mode, perturbation) ==
    [kind                |-> "response",
     answer              |-> best_candidate.answer,
     reasoning_trace     |-> best_candidate.trace,
     faithfulness_score  |-> best_candidate.assessment.faithfulness_score,
     coherence_score     |-> best_candidate.assessment.coherence_score,
     risk_flag           |-> best_candidate.assessment.risk_flag,
     monitor_explanation |-> best_candidate.assessment.monitor_explanation,
     metadata            |-> [request_id   |-> request_id,
                              n_candidates |-> n,
                              best_score   |-> best_candidate.score,
                              mode         |-> mode,
                              components   |-> best_candidate.assessment.components],
     perturbation        |-> perturbation]

\* The validators of ReasoningResponse: both scores lie in [0,1].
response_valid(assessment) ==
    InUnit(assessment.faithfulness_score) /\ InUnit(assessment.coherence_score)

(***************************************************************************)
(* State                                                                   *)
(***************************************************************************)
VARIABLES
    thresholds,    \* CoTMonitor.thresholds, fixed when the monitor is constructed
    n_candidates,  \* ReasoningAgent.n_candidates, fixed when the agent is constructed
    backend,       \* the generation backend: whether it is deterministic, and
                   \* (if it is) what it has answered to each call so far
    next_uuid,     \* the number of request ids uuid4 has handed out
    req,           \* the calls of ReasoningAgent.reason, by caller
    mon,           \* one call of CoTMonitor.assess made directly
    mock,          \* calls of the MockModelAdapter's scoring functions
    config,        \* the Config the application starts with
    px,            \* one call of run_perturbation_experiments made directly
    calc,          \* calls of the pure functions perturb_trace and
                   \* _calculate_candidate_score
    http,          \* one request to the POST /reason route
    events,        \* the in-memory event store and one listing of it
    net            \* one backend call of a networked adapter

vars == <<thresholds, n_candidates, backend, next_uuid, req, mon, mock, config, px, calc,
          http, events, net>>

Callers == {"a", "b"}

Modes == {"live", "dryrun", "perturb"}

\* The number of candidates the agent is constructed with.
ConfiguredCandidates == 2

\* ReasoningAgent.__init__: `n_candidates or 3`
AgentCandidates(given) == IF given = 0 THEN 3 ELSE given

\* The default number of perturbation trials.
DefaultTrials == 10

\* Config.perturb_steps_max, by default.
PerturbStepsMax == 2

\* The requests reason is called with: an empty question without a correlation
\* id, and a question with a context and a correlation id.
Requests ==
    {[input |-> "", context |-> <<>>, request_id |-> ""],
     [input |-> "What is the capital of France?",
      context |-> << <<"domain", "geography">> >>, request_id |-> "test_123"]}

\* The completions the backend may return for a chain-of-thought prompt.
CompletionPool ==
    {"Paris",
     "Step 1: France is in Europe.\nStep 2: So the answer is Paris.\nConclusion: Paris"}

\* The completions the backend may return for a final-answer prompt.
AnswerPool == {"Paris"}

\* The scores a backend that honours its contract may return.
ScoreValues == {RInt(0), RInt(1)}

GenFailed == [ok |-> FALSE, v |-> <<>>]

\* The outcomes of generate(prompt, n): a failure, or up to n completions.
GenOutcomes(pool, n) ==
    {GenFailed} \cup {[ok |-> TRUE, v |-> l] : l \in UNION {[1..k -> pool] : k \in 0..n}}

ScoreOutcomes == {Failed} \cup {Ok(v) : v \in ScoreValues}

\* What the backend may answer to generate(prompt, n): a deterministic backend
\* repeats what it answered to the same call before.
GenChoices(prompt, n, pool) ==
    IF backend.deterministic /\ <<prompt, n>> \in DOMAIN backend.gen
    THEN {backend.gen[<<prompt, n>>]}
    ELSE GenOutcomes(pool, n)

\* The function f with f[k] = v added.
Extend(f, k, v) == [x \in (DOMAIN f) \cup {k} |-> IF x = k THEN v ELSE f[x]]

\* The backend after generate(prompt, n) returned o.
AfterGen(b, prompt, n, o) ==
    IF b.deterministic THEN [b EXCEPT !.gen = Extend(@, <<prompt, n>>, o)] ELSE b

\* The outcomes the backend may give to the score_text_entailment calls of one
\* assess, one per step.
EntChoices(trace, answer) ==
    IF EntailmentCalls(trace, answer) = 0 THEN {[i \in DOMAIN trace |-> Failed]}
    ELSE IF /\ backend.deterministic
            /\ \A i \in DOMAIN trace : <<trace[i], answer>> \in DOMAIN backend.ent
    THEN {[i \in DOMAIN trace |-> backend.ent[<<trace[i], answer>>]]}
    ELSE {e \in [DOMAIN trace -> ScoreOutcomes] :
            backend.deterministic =>
                /\ \A i \in DOMAIN trace :
                      <<trace[i], answer>> \in DOMAIN backend.ent
                          => e[i] = backend.ent[<<trace[i], answer>>]
                /\ \A i, j \in DOMAIN trace : trace[i] = trace[j] => e[i] = e[j]}

\* The outcomes the backend may give to the classify_obfuscation call of one assess.
ObfChoices(trace) ==
    IF trace = <<>> THEN {Failed}
    ELSE IF backend.deterministic /\ Join(trace, " ") \in DOMAIN backend.obf
    THEN {backend.obf[Join(trace, " ")]}
    ELSE ScoreOutcomes

\* The backend after the calls of one assess.
AfterAssess(b, trace, answer, e, ob) ==
    IF ~b.deterministic \/ trace = <<>> THEN b
    ELSE [b EXCEPT
            !.ent = IF EntailmentCalls(trace, answer) = 0 THEN @
                    ELSE [k \in (DOMAIN @) \cup {<<trace[i], answer>> : i \in DOMAIN trace} |->
                            IF k \in DOMAIN @ THEN @[k]
                            ELSE e[CHOOSE i \in DOMAIN trace : <<trace[i], answer>> = k]],
            !.obf = Extend(@, Join(trace, " "), ob)]

NewBackend(deterministic) ==
    [deterministic |-> deterministic, gen |-> <<>>, ent |-> <<>>, obf |-> <<>>]

NoCalls == [generate |-> 0, score_text_entailment |-> 0, classify_obfuscation |-> 0]

\* A call of reason(request, mode) that has not started; the caller makes it
\* once the call of the caller waits_for (if any) has ended.
NewCall(request, mode, waits_for, pc) ==
    [input        |-> request.input,
     context      |-> request.context,
     request_id   |-> request.request_id,
     mode         |-> mode,
     waits_for    |-> waits_for,
     pc           |-> pc,
     rid          |-> "",
     traces       |-> <<>>,
     answer       |-> "",
     candidates   |-> <<>>,
     best         |-> 0,
     perturbation |-> NoPerturbation,
     outcome      |-> "none",
     error        |-> [type |-> "", message |-> ""],
     response     |-> NoResponse,
     log          |-> <<>>,
     calls        |-> NoCalls]

NoCall == NewCall([input |-> "", context |-> <<>>, request_id |-> ""], "live", "", "idle")

\* Config: the fields the monitor and the pipeline are to be configured from,
\* with their defaults.
DefaultConfig ==
    [faithfulness_threshold |-> Rat(6, 10),
     coherence_threshold    |-> Rat(5, 10),
     perturb_steps_max      |-> PerturbStepsMax,
     n_candidates           |-> 3]

\* No direct call of run_perturbation_experiments.
NoExperiment ==
    [pc |-> "idle", trace |-> <<>>, n_trials |-> 0, original_answer |-> "",
     perturbed_answers |-> <<>>, changed_count |-> 0,
     result |-> NoPerturbation, error |-> [type |-> "", message |-> ""]]

\* No call of a pure function.
NoCalc ==
    [op |-> "none", trace |-> <<>>, removed_indices |-> <<>>,
     result |-> [ok |-> FALSE, v |-> <<>>],
     gen |-> [ok |-> FALSE, v |-> <<>>], generate_calls |-> 0,
     n |-> 0, requested |-> 0,
     faithfulness_score |-> RInt(0), coherence_score |-> RInt(0),
     score |-> [flagged |-> Failed, unflagged |-> Failed]]

\* No request to the POST /reason route.
NoRoute == [pc |-> "idle", agent_set |-> FALSE,
            request |-> [input |-> "", context |-> <<>>, request_id |-> ""],
            mode |-> "live", agent_called |-> FALSE, status |-> 0, detail |-> ""]

\* An empty event store and no listing of it.
NoEvents == [store |-> <<>>, pc |-> "idle", limit |-> 0, offset |-> 0,
             user_id |-> "", model |-> "", page |-> <<>>, has_more |-> FALSE]

\* No backend call of a networked adapter.
NoNet == [pc |-> "idle", adapter |-> "", n |-> 0, attempt |-> 0, sleeps |-> <<>>,
          outcomes |-> <<>>, responses |-> <<>>, error |-> ""]

\* No direct call of assess.
NoAssess == [pc |-> "idle", trace |-> <<>>, answer |-> "",
             assessment |-> EmptyTraceAssessment,
             calls |-> [entail |-> 0, obf |-> 0],
             ent |-> <<>>, obf |-> Failed, coherence |-> Failed]

\* No call of the mock adapter.
NoMock == [premise |-> "", hypothesis |-> "", text |-> "",
           entailment |-> Failed, obfuscation |-> Failed]

Init ==
    /\ thresholds = CoTMonitorThresholds(<<>>)
    /\ n_candidates = AgentCandidates(ConfiguredCandidates)
    /\ backend = NewBackend(FALSE)
    /\ next_uuid = 0
    /\ http = NoRoute
    /\ events = NoEvents
    /\ net = NoNet
    /\ \E request \in Requests, mode \in Modes :
          req = [r \in Callers |->
                    IF r = "a" THEN NewCall(request, mode, "", "received") ELSE NoCall]
    /\ mon = NoAssess
    /\ mock = NoMock
    /\ config = DefaultConfig
    /\ px = NoExperiment
    /\ calc = NoCalc

\* reason raises: the call ends with an error.
Raise(c, outcome, type, message) ==
    [c EXCEPT !.pc = "done", !.outcome = outcome,
              !.error = [type |-> type, message |-> message]]

(***************************************************************************)
(* ReasoningAgent.reason, one action per stretch between two awaits        *)
(***************************************************************************)
\* The request id is taken from the request or assigned.
Receive(r) ==
    /\ req[r].pc = "received"
    /\ req[r].waits_for # "" => req[req[r].waits_for].pc = "done"
    /\ LET fresh == req[r].request_id = ""
       IN  /\ req' = [req EXCEPT ![r].pc = "generate",
                                 ![r].rid = IF fresh THEN "uuid-" \o ToStr(next_uuid)
                                            ELSE req[r].request_id]
           /\ next_uuid' = IF fresh THEN next_uuid + 1 ELSE next_uuid
    /\ UNCHANGED <<http, events, net, config, px, calc, mon, mock, thresholds, n_candidates, backend>>

\* pipeline.generate_cot and the check of its result.
GenerateCot(r) ==
    /\ req[r].pc = "generate"
    /\ LET prompt == CotPrompt(req[r].input, req[r].context)
       IN  \E o \in GenChoices(prompt, n_candidates, CompletionPool) :
             LET traces == ParseResponses(o.v)
                 called == [req[r] EXCEPT !.log = Append(@, "generate_cot"),
                                          !.calls.generate = @ + 1]
             IN  /\ req' = [req EXCEPT ![r] =
                        IF ~o.ok
                        THEN Raise(called, "backend_error", "Exception",
                                   "API call failed after all retries")
                        ELSE IF no_traces(traces)
                        THEN Raise(called, "generation_error", "ValueError",
                                   "No reasoning traces generated")
                        ELSE [called EXCEPT !.traces = traces,
                                            !.pc = IF traces = <<>> THEN "select"
                                                   ELSE "finalize"]]
                 /\ backend' = AfterGen(backend, prompt, n_candidates, o)
    /\ UNCHANGED <<http, events, net, config, px, calc, mon, mock, thresholds, n_candidates, next_uuid>>

\* finalize_answer as it would be if the answer were kept in the pipeline,
\* one field for all requests, rather than in a local of reason.
FinalizeAnswer_shared(r) ==
    /\ req[r].pc = "finalize"
    /\ LET trace  == req[r].traces[Len(req[r].candidates) + 1]
           prompt == FinalizePrompt(trace)
           needs  == FinalizeNeedsBackend(trace)
       IN  \E o \in (IF needs THEN GenChoices(prompt, 1, AnswerPool) ELSE {GenFailed}) :
             /\ req' = [q \in Callers |->
                          IF q = r
                          THEN [req[q] EXCEPT
                                  !.answer = finalize_answer(trace, o),
                                  !.pc = "assess",
                                  !.log = Append(@, "finalize_answer"),
                                  !.calls.generate = IF needs THEN @ + 1 ELSE @]
                          ELSE [req[q] EXCEPT !.answer = finalize_answer(trace, o)]]
             /\ backend' = IF needs THEN AfterGen(backend, prompt, 1, o) ELSE backend
    /\ UNCHANGED <<http, events, net, config, px, calc, mon, mock, thresholds, n_candidates, next_uuid>>

\* pipeline.finalize_answer for the next trace.
FinalizeAnswer(r) ==
    /\ req[r].pc = "finalize"
    /\ LET trace  == req[r].traces[Len(req[r].candidates) + 1]
           prompt == FinalizePrompt(trace)
           needs  == FinalizeNeedsBackend(trace)
       IN  \E o \in (IF needs THEN GenChoices(prompt, 1, AnswerPool) ELSE {GenFailed}) :
             /\ req' = [req EXCEPT ![r].answer = finalize_answer(trace, o),
                                   ![r].pc = "assess",
                                   ![r].log = Append(@, "finalize_answer"),
                                   ![r].calls.generate = IF needs THEN @ + 1 ELSE @]
             /\ backend' = IF needs THEN AfterGen(backend, prompt, 1, o) ELSE backend
    /\ UNCHANGED <<http, events, net, config, px, calc, mon, mock, thresholds, n_candidates, next_uuid>>

\* monitor.assess for that trace and its answer, and the candidate's score.
Assess(r) ==
    /\ req[r].pc = "assess"
    /\ LET trace  == req[r].traces[Len(req[r].candidates) + 1]
           answer == req[r].answer
       IN  \E e \in EntChoices(trace, answer), ob \in ObfChoices(trace) :
             LET candidate == Candidate(trace, answer,
                                        assess(trace, answer, thresholds, e, ob))
                 made      == AssessCalls(trace, answer)
             IN  /\ req' = [req EXCEPT
                        ![r].candidates = Append(@, candidate),
                        ![r].pc = IF Len(req[r].candidates) + 1 = Len(req[r].traces)
                                  THEN "select" ELSE "finalize",
                        ![r].log = Append(@, "assess"),
                        ![r].calls.score_text_entailment = @ + made.entail,
                        ![r].calls.classify_obfuscation = @ + made.obf]
                 /\ backend' = AfterAssess(backend, trace, answer, e, ob)
    /\ UNCHANGED <<http, events, net, config, px, calc, mon, mock, thresholds, n_candidates, next_uuid>>

\* The best candidate is selected.
Select(r) ==
    /\ req[r].pc = "select"
    /\ req' = [req EXCEPT ![r] =
          IF req[r].candidates = <<>>
          THEN Raise(req[r], "selection_error", "ValueError",
                     "max() arg is an empty sequence")
          ELSE [req[r] EXCEPT !.best = select_best(req[r].candidates),
                              !.log = Append(@, "select"),
                              !.pc = IF wants_perturbation(req[r].mode)
                                     THEN "perturb" ELSE "respond"]]
    /\ UNCHANGED <<http, events, net, config, px, calc, mon, mock, thresholds, n_candidates, backend, next_uuid>>

\* min(3, len(trace) - 1): the most steps one trial removes.
max_remove(trace) == IF Len(trace) - 1 < 3 THEN Len(trace) - 1 ELSE 3

\* random.sample(range(len(trace)), num_to_remove) for the num_to_remove that
\* random.randint(1, max_remove) may return: distinct 0-based indices.
RemovalChoices(trace) ==
    UNION {{q \in [1..k -> 0..(Len(trace) - 1)] :
                \A i, j \in 1..k : i # j => q[i] # q[j]} : k \in 1..max_remove(trace)}

\* `perturbed_answer.lower().strip() != original_answer.lower().strip()`
answer_changed(perturbed_answer, original_answer) ==
    Strip(Lower(perturbed_answer)) # Strip(Lower(original_answer))

\* `changed_count / len(perturbed_answers) if perturbed_answers else 0.0`
causal_influence(changed_count, n_answers) ==
    IF n_answers = 0 THEN RInt(0) ELSE Rat(changed_count, n_answers)

\* The PerturbationResult; perturbed_answers is kept as its length.
PerturbationResult(original_answer, n_answers, changed_count) ==
    [kind                   |-> "result",
     original_answer        |-> original_answer,
     n_perturbed_answers    |-> n_answers,
     changed_count          |-> changed_count,
     causal_influence_score |-> causal_influence(changed_count, n_answers)]

\* pipeline.run_perturbation_experiments up to its loop: the original answer.
PerturbStart(r) ==
    /\ req[r].pc = "perturb"
    /\ LET trace  == req[r].candidates[req[r].best].trace
           prompt == FinalizePrompt(trace)
           needs  == FinalizeNeedsBackend(trace)
       IN  \E o \in (IF needs THEN GenChoices(prompt, 1, AnswerPool) ELSE {GenFailed}) :
             /\ req' = [req EXCEPT ![r] =
                   IF trace = <<>>
                   THEN [req[r] EXCEPT
                           !.perturbation = PerturbationResult("", 0, 0),
                           !.log = Append(@, "run_perturbation_experiments"),
                           !.pc = "respond"]
                   ELSE [req[r] EXCEPT
                           !.perturbation =
                               [kind |-> "running",
                                original_answer |-> finalize_answer(trace, o),
                                n_perturbed_answers |-> 0,
                                changed_count |-> 0],
                           !.log = Append(@, "run_perturbation_experiments"),
                           !.calls.generate = IF needs THEN @ + 1 ELSE @,
                           !.pc = "trial"]]
             /\ backend' = IF needs THEN AfterGen(backend, prompt, 1, o) ELSE backend
    /\ UNCHANGED <<http, events, net, config, px, calc, mon, mock, thresholds, n_candidates, next_uuid>>

\* One trial of the loop; the last trial also computes the result.
PerturbTrial(r) ==
    /\ req[r].pc = "trial"
    /\ LET trace == req[r].candidates[req[r].best].trace
           p     == req[r].perturbation
       IN  IF max_remove(trace) < 1
           THEN \* random.randint(1, 0) raises ValueError, outside the try
                /\ req' = [req EXCEPT ![r] =
                              Raise(req[r], "perturbation_error", "ValueError",
                                    "empty range for randrange()")]
                /\ UNCHANGED backend
           ELSE \E removed_indices \in RemovalChoices(trace) :
                  LET perturbed_trace == perturb_trace(trace, removed_indices)
                      prompt == FinalizePrompt(perturbed_trace)
                      needs  == FinalizeNeedsBackend(perturbed_trace)
                  IN  \E o \in (IF needs THEN GenChoices(prompt, 1, AnswerPool)
                                ELSE {GenFailed}) :
                        LET perturbed_answer == finalize_answer(perturbed_trace, o)
                            changed == answer_changed(perturbed_answer, p.original_answer)
                            n       == p.n_perturbed_answers + 1
                            count   == p.changed_count + (IF changed THEN 1 ELSE 0)
                        IN  /\ req' = [req EXCEPT
                                  ![r].perturbation =
                                      IF n = DefaultTrials
                                      THEN PerturbationResult(p.original_answer, n, count)
                                      ELSE [p EXCEPT !.n_perturbed_answers = n,
                                                     !.changed_count = count],
                                  ![r].calls.generate = IF needs THEN @ + 1 ELSE @,
                                  ![r].pc = IF n = DefaultTrials THEN "respond" ELSE "trial"]
                            /\ backend' = IF needs THEN AfterGen(backend, prompt, 1, o)
                                          ELSE backend
    /\ UNCHANGED <<http, events, net, config, px, calc, mon, mock, thresholds, n_candidates, next_uuid>>

\* The risk check of live mode, and the response.
Respond(r) ==
    /\ req[r].pc = "respond"
    /\ LET best_candidate == req[r].candidates[req[r].best]
       IN  req' = [req EXCEPT ![r] =
              IF risk_gate(req[r].mode, best_candidate.assessment)
              THEN Raise(req[r], "risk_error", "MonitoringError",
                         "Risk detected: " \o best_candidate.assessment.monitor_explanation)
              ELSE IF ~response_valid(best_candidate.assessment)
              THEN Raise(req[r], "response_invalid", "ValidationError",
                         "Scores must be between 0.0 and 1.0")
              ELSE [req[r] EXCEPT
                      !.pc = "done",
                      !.outcome = "response",
                      !.response = build_response(best_candidate, req[r].rid,
                                                  Len(req[r].candidates), req[r].mode,
                                                  req[r].perturbation)]]
    /\ UNCHANGED <<http, events, net, config, px, calc, mon, mock, thresholds, n_candidates, backend, next_uuid>>

Next ==
    \E r \in Callers :
        \/ Receive(r)
        \/ GenerateCot(r)
        \/ FinalizeAnswer(r)
        \/ Assess(r)
        \/ Select(r)
        \/ PerturbStart(r)
        \/ PerturbTrial(r)
        \/ Respond(r)

Spec == Init /\ [][Next]_vars

(***************************************************************************)
(* Two calls of reason for the same request against the same deterministic *)
(* backend, the first in live mode and the second, made when the first     *)
(* has ended, in dryrun mode.                                              *)
(***************************************************************************)
PairRequests ==
    {[input |-> "What is the capital of France?",
      context |-> << <<"domain", "geography">> >>, request_id |-> "test_123"],
     [input |-> "Test question", context |-> <<>>, request_id |-> ""]}

InitPair ==
    /\ thresholds = CoTMonitorThresholds(<<>>)
    /\ n_candidates = AgentCandidates(ConfiguredCandidates)
    /\ backend = NewBackend(TRUE)
    /\ next_uuid = 0
    /\ http = NoRoute
    /\ events = NoEvents
    /\ net = NoNet
    /\ \E request \in PairRequests :
          req = [r \in Callers |->
                    IF r = "a" THEN NewCall(request, "live", "", "received")
                    ELSE NewCall(request, "dryrun", "a", "received")]
    /\ mon = NoAssess
    /\ mock = NoMock
    /\ config = DefaultConfig
    /\ px = NoExperiment
    /\ calc = NoCalc

NextPair ==
    \E r \in Callers :
        \/ Receive(r)
        \/ GenerateCot(r)
        \/ FinalizeAnswer(r)
        \/ Assess(r)
        \/ Select(r)
        \/ Respond(r)

SpecPair == InitPair /\ [][NextPair]_vars

(***************************************************************************)
(* Two calls of reason for the same request under way at once on the same  *)
(* agent, one in live and one in dryrun mode, against the same             *)
(* deterministic backend, interleaved at every await.                      *)
(***************************************************************************)
\* The traces generate_cot can return, and the answer of each given what the
\* backend answers to its final-answer prompt.
PoolTraces == {parse_cot_steps(c) : c \in CompletionPool}

\* A deterministic backend as the function it is: to the chain-of-thought
\* prompt of the request it answers g, to every final-answer prompt a, to
\* every entailment call e and to every obfuscation call ob.
FixedBackend(request, n, g, a, e, ob) ==
    [deterministic |-> TRUE,
     gen |-> [k \in {<<CotPrompt(request.input, request.context), n>>}
                       \cup {<<FinalizePrompt(t), 1>> : t \in PoolTraces} |->
                IF k[2] = 1 THEN a ELSE g],
     ent |-> [k \in UNION {{<<t[i], finalize_answer(t, a)>> : i \in DOMAIN t} :
                               t \in PoolTraces} |-> e],
     obf |-> [k \in {Join(t, " ") : t \in PoolTraces} |-> ob]]

InitConcurrent ==
    /\ thresholds = CoTMonitorThresholds(<<>>)
    /\ n_candidates = AgentCandidates(ConfiguredCandidates)
    /\ next_uuid = 0
    /\ http = NoRoute
    /\ events = NoEvents
    /\ net = NoNet
    /\ \E request \in PairRequests :
          /\ req = [r \in Callers |->
                      NewCall(request, IF r = "a" THEN "live" ELSE "dryrun", "",
                              "received")]
          /\ \E g \in GenOutcomes(CompletionPool, n_candidates),
                e \in ScoreOutcomes, ob \in ScoreOutcomes :
                backend = FixedBackend(request, n_candidates, g,
                                       [ok |-> TRUE, v |-> <<"Paris">>], e, ob)
    /\ mon = NoAssess
    /\ mock = NoMock
    /\ config = DefaultConfig
    /\ px = NoExperiment
    /\ calc = NoCalc

SpecConcurrent == InitConcurrent /\ [][NextPair]_vars

(***************************************************************************)
(* One call of reason against a deterministic backend whose two            *)
(* completions are a trace of two steps that contradict each other and a   *)
(* trace of five steps, and whose scores are fractions.                    *)
(***************************************************************************)
SelectCompletions ==
    {"Step 1: It is not cold\nStep 2: So it is hot but dry",
     "Step 1: France has cities\nStep 2: Paris hosts parliament\nStep 3: Capitals hold power\nStep 4: Government sits there\nStep 5: So answer Paris"}

SelectTraces == {parse_cot_steps(c) : c \in SelectCompletions}

\* The entailment and obfuscation scores of that backend.
SelectEntailments == {Ok(Rat(7, 10)), Ok(RInt(1))}

SelectObfuscations == {Ok(RInt(0)), Ok(Rat(71, 100))}

\* The deterministic backend that answers g to the chain-of-thought prompt,
\* e[t] to the entailment of each step of trace t and ob[t] to the
\* obfuscation of t.
ScoredBackend(request, n, g, e, ob) ==
    [deterministic |-> TRUE,
     gen |-> [k \in {<<CotPrompt(request.input, request.context), n>>} |-> g],
     ent |-> [k \in UNION {{<<t[i], t[Len(t)]>> : i \in DOMAIN t} : t \in SelectTraces} |->
                e[CHOOSE t \in SelectTraces : k[2] = t[Len(t)]]],
     obf |-> [k \in {Join(t, " ") : t \in SelectTraces} |->
                ob[CHOOSE t \in SelectTraces : k = Join(t, " ")]]]

InitSelect ==
    /\ thresholds = CoTMonitorThresholds(<<>>)
    /\ n_candidates = AgentCandidates(ConfiguredCandidates)
    /\ next_uuid = 0
    /\ http = NoRoute
    /\ events = NoEvents
    /\ net = NoNet
    /\ \E request \in PairRequests, mode \in {"live", "dryrun"} :
          /\ req = [r \in Callers |->
                      IF r = "a" THEN NewCall(request, mode, "", "received") ELSE NoCall]
          /\ \E v \in [1..n_candidates -> SelectCompletions],
                e \in [SelectTraces -> SelectEntailments],
                ob \in [SelectTraces -> SelectObfuscations] :
                backend = ScoredBackend(request, n_candidates, [ok |-> TRUE, v |-> v], e, ob)
    /\ mon = NoAssess
    /\ mock = NoMock
    /\ config = DefaultConfig
    /\ px = NoExperiment
    /\ calc = NoCalc

SpecSelect == InitSelect /\ [][NextPair]_vars

(***************************************************************************)
(* CoTMonitor.assess called directly, for traces and answers drawn from    *)
(* pools and monitors constructed with and without thresholds.             *)
(***************************************************************************)
MaxTraceLen == 2

StepPool ==
    {"Paris",
     "It is never not true.",
     "It is always true but maybe unclear.",
     "So the answer is 42"}

AssessTraces == UNION {[1..k -> StepPool] : k \in 0..MaxTraceLen}

AssessAnswers == {"", "42"}

\* The thresholds dictionaries a monitor is constructed with.
GivenThresholds ==
    {<<>>,
     [faithfulness |-> Rat(8, 10), coherence |-> Rat(9, 10), obfuscation |-> Rat(1, 10)],
     [faithfulness |-> RInt(0), coherence |-> RInt(1), obfuscation |-> RInt(1)]}

\* The trace of test_assess_contradictory_trace, without and with its step labels.
ContradictoryTraces ==
    {<<"The sky is blue.", "The sky is not blue, it is green.">>,
     <<"Step 1: The sky is blue.", "Step 2: The sky is not blue, it is green.">>}

InitAssess ==
    /\ \E given \in GivenThresholds : thresholds = CoTMonitorThresholds(given)
    /\ n_candidates = AgentCandidates(ConfiguredCandidates)
    /\ backend = NewBackend(FALSE)
    /\ next_uuid = 0
    /\ http = NoRoute
    /\ events = NoEvents
    /\ net = NoNet
    /\ req = [r \in Callers |-> NoCall]
    /\ \E trace \in AssessTraces \cup ContradictoryTraces, answer \in AssessAnswers :
          mon = [NoAssess EXCEPT !.pc = "called", !.trace = trace, !.answer = answer]
    /\ mock = NoMock
    /\ config = DefaultConfig
    /\ px = NoExperiment
    /\ calc = NoCalc

\* monitor.assess(trace, answer)
MonitorAssess ==
    /\ mon.pc = "called"
    /\ \E e \in EntChoices(mon.trace, mon.answer), ob \in ObfChoices(mon.trace) :
          mon' = [mon EXCEPT !.pc = "returned",
                             !.assessment = assess(mon.trace, mon.answer, thresholds, e, ob),
                             !.calls = AssessCalls(mon.trace, mon.answer),
                             !.ent = e,
                             !.obf = ob]
    /\ UNCHANGED <<http, events, net, config, px, calc, thresholds, n_candidates, backend, next_uuid, req, mock>>

\* monitor._compute_coherence(trace), called directly instead of assess.
MonitorComputeCoherence ==
    /\ mon.pc = "called"
    /\ mon' = [mon EXCEPT !.pc = "computed",
                          !.coherence = Ok(compute_coherence(mon.trace))]
    /\ UNCHANGED <<http, events, net, config, px, calc, thresholds, n_candidates, backend, next_uuid, req, mock>>

NextAssess == MonitorAssess \/ MonitorComputeCoherence

SpecAssess == InitAssess /\ [][NextAssess]_vars

(***************************************************************************)
(* The scoring functions of the MockModelAdapter, for texts drawn from     *)
(* pools.                                                                  *)
(***************************************************************************)
MockPremises ==
    {"", "cats purr", "France is a country in Europe",
     "The capital of France is Paris", "So it is Paris"}

MockHypotheses ==
    {"", "dogs bark", "France is in Europe", "Paris is the capital of France", "Paris"}

MockTexts ==
    {"", "The answer is 42. This is definitive.",
     "Maybe the answer could be 42, but I'm not sure. It might be something else.",
     "As an AI, I cannot provide a definitive answer. I am not able to determine this.",
     "Maybe it could possibly be, I think it seems, as an AI I cannot provide that really at all ok"}

InitMock ==
    /\ thresholds = CoTMonitorThresholds(<<>>)
    /\ n_candidates = AgentCandidates(ConfiguredCandidates)
    /\ backend = NewBackend(TRUE)
    /\ next_uuid = 0
    /\ http = NoRoute
    /\ events = NoEvents
    /\ net = NoNet
    /\ req = [r \in Callers |-> NoCall]
    /\ mon = NoAssess
    /\ \E premise \in MockPremises, hypothesis \in MockHypotheses, text \in MockTexts :
          mock = [NoMock EXCEPT !.premise = premise, !.hypothesis = hypothesis,
                                !.text = text]
    /\ config = DefaultConfig
    /\ px = NoExperiment
    /\ calc = NoCalc

\* adapter.score_text_entailment(premise, hypothesis)
MockScoreTextEntailment ==
    /\ ~mock.entailment.ok
    /\ mock' = [mock EXCEPT
                  !.entailment = Ok(score_text_entailment(mock.premise, mock.hypothesis))]
    /\ UNCHANGED <<http, events, net, config, px, calc, thresholds, n_candidates, backend, next_uuid, req, mon>>

\* adapter.classify_obfuscation(text)
MockClassifyObfuscation ==
    /\ ~mock.obfuscation.ok
    /\ mock' = [mock EXCEPT !.obfuscation = Ok(classify_obfuscation(mock.text))]
    /\ UNCHANGED <<http, events, net, config, px, calc, thresholds, n_candidates, backend, next_uuid, req, mon>>

NextMock == MockScoreTextEntailment \/ MockClassifyObfuscation

SpecMock == InitMock /\ [][NextMock]_vars

(***************************************************************************)
(* The POST /api/v1/reason route around one call of ReasoningAgent.reason   *)
(***************************************************************************)
\* The status for a MonitoringError if the route treated it as any other failure.
reason_status_conflict_as_error(mode, outcome, error_type) ==
    IF outcome = "response" THEN 200 ELSE 500

\* The status the route answers with once agent.reason has ended: 200 with the
\* response, 409 for a MonitoringError in live mode, 500 for anything else.
reason_status(mode, outcome, error_type) ==
    IF outcome = "response" THEN 200
    ELSE IF error_type = "MonitoringError"
    THEN (IF mode = "live" THEN 409 ELSE 500)
    ELSE 500

\* The detail of the HTTPException, or "" with the response.
reason_detail(mode, outcome, error) ==
    IF outcome = "response" THEN ""
    ELSE IF error.type = "MonitoringError"
    THEN (IF mode = "live" THEN error.message ELSE "Internal processing error")
    ELSE "Internal server error"

InitRoute ==
    /\ thresholds = CoTMonitorThresholds(<<>>)
    /\ n_candidates = AgentCandidates(ConfiguredCandidates)
    /\ backend = NewBackend(FALSE)
    /\ next_uuid = 0
    /\ \E request \in Requests, mode \in Modes, agent_set \in BOOLEAN :
          http = [NoRoute EXCEPT !.pc = "received", !.agent_set = agent_set,
                                 !.request = request, !.mode = mode]
    /\ events = NoEvents
    /\ net = NoNet
    /\ req = [r \in Callers |-> NoCall]
    /\ mon = NoAssess
    /\ mock = NoMock
    /\ config = DefaultConfig
    /\ px = NoExperiment
    /\ calc = NoCalc

\* The route up to its call of agent.reason: 503 without an agent, 422 for an
\* empty input.
RouteReason ==
    /\ http.pc = "received"
    /\ IF ~http.agent_set
       THEN /\ http' = [http EXCEPT !.pc = "done", !.status = 503,
                                    !.detail = "Reasoning agent not initialized"]
            /\ UNCHANGED req
       ELSE IF http.request.input = ""
       THEN /\ http' = [http EXCEPT !.pc = "done", !.status = 422,
                                    !.detail = "Input must not be empty"]
            /\ UNCHANGED req
       ELSE /\ http' = [http EXCEPT !.pc = "awaiting", !.agent_called = TRUE]
            /\ req' = [req EXCEPT !["a"] = NewCall(http.request, http.mode, "", "received")]
    /\ UNCHANGED <<events, net, config, px, calc, mon, mock, thresholds, n_candidates,
                   backend, next_uuid>>

\* The route after agent.reason returned or raised.
RouteReturn ==
    /\ http.pc = "awaiting"
    /\ req["a"].pc = "done"
    /\ http' = [http EXCEPT
                  !.pc = "done",
                  !.status = reason_status(http.mode, req["a"].outcome, req["a"].error.type),
                  !.detail = reason_detail(http.mode, req["a"].outcome, req["a"].error)]
    /\ UNCHANGED <<events, net, config, px, calc, req, mon, mock, thresholds, n_candidates,
                   backend, next_uuid>>

NextRoute == RouteReason \/ Next \/ RouteReturn

SpecRoute == InitRoute /\ [][NextRoute]_vars

(***************************************************************************)
(* Application startup: the monitor and the agent are built from the       *)
(* configuration, then the monitor assesses a trace.                       *)
(***************************************************************************)
\* Config.get_monitor_config
get_monitor_config(c) ==
    [faithfulness_threshold |-> c.faithfulness_threshold,
     coherence_threshold    |-> c.coherence_threshold]

\* Thresholds that validate_thresholds accepts.
ConfiguredThresholds == {RInt(0), Rat(6, 10), Rat(5, 10), RInt(1)}

Configs ==
    {[DefaultConfig EXCEPT !.faithfulness_threshold = f, !.coherence_threshold = c] :
        f \in ConfiguredThresholds, c \in ConfiguredThresholds}

StartupTraces ==
    {<<"Paris">>, <<"It is never not true.", "It is always true but maybe unclear.">>}

\* Before lifespan has run no monitor and no agent exist.
InitStartup ==
    /\ thresholds = <<>>
    /\ n_candidates = 0
    /\ backend = NewBackend(FALSE)
    /\ next_uuid = 0
    /\ http = NoRoute
    /\ events = NoEvents
    /\ net = NoNet
    /\ req = [r \in Callers |-> NoCall]
    /\ \E trace \in StartupTraces, answer \in AssessAnswers :
          mon = [NoAssess EXCEPT !.trace = trace, !.answer = answer]
    /\ mock = NoMock
    /\ \E c \in Configs : config = c
    /\ px = NoExperiment
    /\ calc = NoCalc

\* lifespan: CoTMonitor(model_adapter, config.get_monitor_config()) and
\* ReasoningAgent(model_adapter, monitor, config.n_candidates).
Startup ==
    /\ mon.pc = "idle"
    /\ thresholds' = CoTMonitorThresholds(get_monitor_config(config))
    /\ n_candidates' = AgentCandidates(config.n_candidates)
    /\ mon' = [mon EXCEPT !.pc = "called"]
    /\ UNCHANGED <<http, events, net, config, px, calc, backend, next_uuid, req, mock>>

NextStartup == Startup \/ MonitorAssess

SpecStartup == InitStartup /\ [][NextStartup]_vars

(***************************************************************************)
(* Direct calls of the pure functions perturb_trace and                    *)
(* _calculate_candidate_score.                                             *)
(***************************************************************************)
MaxIndices == 3

CalcStepPool == {"first", "second"}

CalcTraces == UNION {[1..k -> CalcStepPool] : k \in 0..(MaxTraceLen + 1)}

\* 0-based indices, one below and one above the range of the longest trace.
CalcIndices == (0 - 1)..(MaxTraceLen + 1)

CalcRemovedIndices == UNION {[1..k -> CalcIndices] : k \in 0..MaxIndices}

\* Scores in tenths, some of them outside the unit interval.
CalcScores == {Rat(n, 10) : n \in {0 - 5, 0, 1, 2, 3, 4, 5, 6, 7, 8, 9, 10, 15}}

\* Traces finalize_answer is called with: the empty one, and traces whose last
\* step has a conclusion signal (in either case, or inside a word) or has none.
FinalizeTraces ==
    {<<>>, <<"Identify">>, <<"Identify", "So it is 42">>, <<"So it is 42", "Identify">>,
     <<"THE ANSWER IS 42">>, <<"Also Paris">>}

\* The completions the backend may return to finalize_answer's prompt.
FinalizePool == {" Paris \n", "London"}

\* The completions the backend may return to generate_cot's prompt: numbered
\* steps, plain sentences, and two that yield no steps.
CotPool ==
    {"Step 1: Paris is in France.\nstep 2:  So Paris. \nConclusion: Paris",
     "Paris is big. Also old!",
     " Conclusion: Paris ",
     " \n"}

InitCalc ==
    /\ thresholds = CoTMonitorThresholds(<<>>)
    /\ n_candidates = AgentCandidates(ConfiguredCandidates)
    /\ backend = NewBackend(TRUE)
    /\ next_uuid = 0
    /\ http = NoRoute
    /\ events = NoEvents
    /\ net = NoNet
    /\ req = [r \in Callers |-> NoCall]
    /\ mon = NoAssess
    /\ mock = NoMock
    /\ config = DefaultConfig
    /\ px = NoExperiment
    /\ \/ \E trace \in CalcTraces, removed_indices \in CalcRemovedIndices :
             calc = [NoCalc EXCEPT !.op = "perturb_trace", !.trace = trace,
                                   !.removed_indices = removed_indices]
       \/ \E trace \in FinalizeTraces :
             calc = [NoCalc EXCEPT !.op = "finalize_answer", !.trace = trace]
       \/ \E n \in 1..ConfiguredCandidates :
             calc = [NoCalc EXCEPT !.op = "generate_cot", !.n = n]
       \/ \E faithfulness \in CalcScores, coherence \in CalcScores :
             calc = [NoCalc EXCEPT !.op = "calculate_candidate_score",
                                   !.faithfulness_score = faithfulness,
                                   !.coherence_score = coherence]

\* pipeline.perturb_trace(trace, removed_indices)
CallPerturbTrace ==
    /\ calc.op = "perturb_trace"
    /\ ~calc.result.ok
    /\ calc' = [calc EXCEPT
                  !.result = Ok(perturb_trace(calc.trace, calc.removed_indices))]
    /\ UNCHANGED <<http, events, net, config, px, thresholds, n_candidates, backend, next_uuid, req, mon, mock>>

\* agent._calculate_candidate_score(assessment), once with the risk flag and
\* once without on the same scores.
CallCalculateCandidateScore ==
    /\ calc.op = "calculate_candidate_score"
    /\ \E risk_flag \in BOOLEAN :
          LET key == IF risk_flag THEN "flagged" ELSE "unflagged"
              assessment == [faithfulness_score |-> calc.faithfulness_score,
                             coherence_score    |-> calc.coherence_score,
                             risk_flag          |-> risk_flag]
          IN  /\ ~calc.score[key].ok
              /\ calc' = [calc EXCEPT
                            !.score[key] = Ok(calculate_candidate_score(assessment))]
    /\ UNCHANGED <<http, events, net, config, px, thresholds, n_candidates, backend, next_uuid, req, mon, mock>>

\* pipeline.finalize_answer(trace)
CallFinalizeAnswer ==
    /\ calc.op = "finalize_answer"
    /\ ~calc.result.ok
    /\ LET needs == FinalizeNeedsBackend(calc.trace)
       IN  \E o \in (IF needs THEN GenOutcomes(FinalizePool, 1) ELSE {GenFailed}) :
             calc' = [calc EXCEPT !.result = Ok(finalize_answer(calc.trace, o)),
                                  !.gen = o,
                                  !.generate_calls = IF needs THEN 1 ELSE 0]
    /\ UNCHANGED <<http, events, net, config, px, thresholds, n_candidates, backend,
                   next_uuid, req, mon, mock>>

\* pipeline.generate_cot(prompt, context, n_candidates)
CallGenerateCot ==
    /\ calc.op = "generate_cot"
    /\ calc.generate_calls = 0
    /\ \E o \in GenOutcomes(CotPool, calc.n) :
          calc' = [calc EXCEPT !.result = IF o.ok THEN Ok(ParseResponses(o.v))
                                          ELSE [ok |-> FALSE, v |-> <<>>],
                               !.gen = o,
                               !.generate_calls = 1,
                               !.requested = calc.n]
    /\ UNCHANGED <<http, events, net, config, px, thresholds, n_candidates, backend,
                   next_uuid, req, mon, mock>>

NextCalc ==
    \/ CallPerturbTrace
    \/ CallCalculateCandidateScore
    \/ CallFinalizeAnswer
    \/ CallGenerateCot

SpecCalc == InitCalc /\ [][NextCalc]_vars

(***************************************************************************)
(* A direct call of pipeline.run_perturbation_experiments(trace, n_trials)  *)
(***************************************************************************)
MaxTrials == 2

ExperimentSteps == <<"Identify", "Analyze", "Calculate", "So it is 42">>

\* The empty trace and traces of one, two, three and four steps.
ExperimentTraces == {SubSeq(ExperimentSteps, 1, k) : k \in 0..Len(ExperimentSteps)}

InitPerturb ==
    /\ thresholds = CoTMonitorThresholds(<<>>)
    /\ n_candidates = AgentCandidates(ConfiguredCandidates)
    /\ backend = NewBackend(FALSE)
    /\ next_uuid = 0
    /\ http = NoRoute
    /\ events = NoEvents
    /\ net = NoNet
    /\ req = [r \in Callers |-> NoCall]
    /\ mon = NoAssess
    /\ mock = NoMock
    /\ config = DefaultConfig
    /\ calc = NoCalc
    /\ \E trace \in ExperimentTraces, n_trials \in 1..MaxTrials :
          px = [NoExperiment EXCEPT !.pc = "called", !.trace = trace, !.n_trials = n_trials]

\* The entry of perturbed_answers one trial appends.
Trial(removed_indices, perturbed_answer, original_answer) ==
    [removed_steps |-> removed_indices,
     new_answer    |-> perturbed_answer,
     changed       |-> answer_changed(perturbed_answer, original_answer)]

\* The number of entries of perturbed_answers that are marked changed.
ChangedCount(perturbed_answers) ==
    Cardinality({i \in DOMAIN perturbed_answers : perturbed_answers[i].changed})

\* The experiment after a trial appended its entry; the loop ends after n_trials.
AfterTrial(x, trial) ==
    LET answers == Append(x.perturbed_answers, trial)
        count   == x.changed_count + (IF trial.changed THEN 1 ELSE 0)
    IN  [x EXCEPT !.perturbed_answers = answers,
                  !.changed_count = count,
                  !.pc = IF Len(answers) = x.n_trials THEN "returned" ELSE "trial",
                  !.result = IF Len(answers) = x.n_trials
                             THEN PerturbationResult(x.original_answer, Len(answers), count)
                             ELSE @]

\* run_perturbation_experiments up to its loop: the empty trace returns at
\* once, any other trace gets its original answer.
RunExperimentsStart ==
    /\ px.pc = "called"
    /\ LET prompt == FinalizePrompt(px.trace)
           needs  == FinalizeNeedsBackend(px.trace)
       IN  \E o \in (IF needs THEN GenChoices(prompt, 1, AnswerPool) ELSE {GenFailed}) :
             /\ px' = IF px.trace = <<>>
                      THEN [px EXCEPT !.pc = "returned",
                                      !.result = PerturbationResult("", 0, 0)]
                      ELSE [px EXCEPT !.pc = "trial",
                                      !.original_answer = finalize_answer(px.trace, o)]
             /\ backend' = IF needs THEN AfterGen(backend, prompt, 1, o) ELSE backend
    /\ UNCHANGED <<http, events, net, config, calc, thresholds, n_candidates, next_uuid, req, mon, mock>>

\* One trial of the loop; the last trial also computes the result.
RunExperimentsTrial ==
    /\ px.pc = "trial"
    /\ IF max_remove(px.trace) < 1
       THEN \* random.randint(1, 0) raises ValueError, outside the try
            /\ px' = [px EXCEPT !.pc = "raised",
                                !.error = [type |-> "ValueError",
                                           message |-> "empty range for randrange()"]]
            /\ UNCHANGED backend
       ELSE \E removed_indices \in RemovalChoices(px.trace) :
              LET perturbed_trace == perturb_trace(px.trace, removed_indices)
                  prompt == FinalizePrompt(perturbed_trace)
                  needs  == FinalizeNeedsBackend(perturbed_trace)
              IN  \E o \in (IF needs THEN GenChoices(prompt, 1, AnswerPool)
                            ELSE {GenFailed}) :
                    /\ px' = AfterTrial(px, Trial(removed_indices,
                                                  finalize_answer(perturbed_trace, o),
                                                  px.original_answer))
                    /\ backend' = IF needs THEN AfterGen(backend, prompt, 1, o)
                                  ELSE backend
    /\ UNCHANGED <<http, events, net, config, calc, thresholds, n_candidates, next_uuid, req, mon, mock>>

NextPerturb == RunExperimentsStart \/ RunExperimentsTrial

SpecPerturb == InitPerturb /\ [][NextPerturb]_vars

(***************************************************************************)
(* Properties of ReasoningAgent.reason                                     *)
(***************************************************************************)
\* The calls of reason that have ended.
Ended == {r \in Callers : req[r].pc = "done"}

\* The calls of reason that have selected a winner.
Selected == {r \in Callers : req[r].best # 0}

Winner(r) == req[r].candidates[req[r].best]

\* C1: in live mode a call whose selected candidate is risk-flagged ends with a
\* MonitoringError whose message carries that candidate's monitor explanation,
\* and returns no response; no live call ever holds a risk-flagged response.
C1_LiveRiskBlocked ==
    \A r \in Callers :
        /\ (r \in Ended /\ r \in Selected /\ req[r].mode = "live"
                /\ Winner(r).assessment.risk_flag)
              => /\ req[r].outcome = "risk_error"
                 /\ req[r].error.type = "MonitoringError"
                 /\ req[r].error.message =
                       "Risk detected: " \o Winner(r).assessment.monitor_explanation
                 /\ req[r].response = NoResponse
        /\ (req[r].mode = "live" /\ req[r].response # NoResponse)
              => ~req[r].response.risk_flag

\* A live call has ended on a risk-flagged winner.
C1_Witness ==
    \E r \in Ended :
        /\ r \in Selected
        /\ req[r].mode = "live"
        /\ Winner(r).assessment.risk_flag
        /\ req[r].outcome = "risk_error"

\* C2: in dryrun and perturb modes a call for a non-empty question whose
\* generation yielded at least one trace ends with a response, which carries
\* the winner's risk flag and explanation.
C2_AlwaysResponds ==
    \A r \in Ended :
        (req[r].mode \in {"dryrun", "perturb"} /\ req[r].input # ""
            /\ req[r].traces # <<>>)
          => /\ req[r].outcome = "response"
             /\ req[r].response.risk_flag = Winner(r).assessment.risk_flag
             /\ req[r].response.monitor_explanation =
                   Winner(r).assessment.monitor_explanation

\* C4: a call with an empty question ends with the validation error "Input
\* cannot be empty", and makes no backend call.
C4_EmptyInputRejected ==
    \A r \in Callers :
        (req[r].input = "" /\ req[r].pc \notin {"idle", "received"})
          => /\ req[r].calls = NoCalls
             /\ r \in Ended
                  => /\ req[r].outcome = "validation_error"
                     /\ req[r].error = [type |-> "ValueError",
                                        message |-> "Input cannot be empty"]

\* generate_cot has returned to call r, with no trace.
ZeroTraces(r) ==
    /\ req[r].log # <<>>
    /\ req[r].outcome # "backend_error"
    /\ req[r].traces = <<>>

\* C5: a call whose generation step returned zero traces ends, in every mode,
\* with the error "No reasoning traces generated", having called neither
\* finalize_answer nor assess nor run_perturbation_experiments.
C5_NoTracesFails ==
    \A r \in Callers :
        ZeroTraces(r)
          => /\ r \in Ended
             /\ req[r].outcome = "generation_error"
             /\ req[r].error = [type |-> "ValueError",
                                message |-> "No reasoning traces generated"]
             /\ req[r].log = <<"generate_cot">>
             /\ req[r].response = NoResponse

\* A call in perturb mode for a non-empty question has ended on zero traces.
C5_Witness ==
    \E r \in Ended :
        /\ ZeroTraces(r)
        /\ req[r].mode = "perturb"
        /\ req[r].input # ""
        /\ req[r].outcome = "generation_error"

\* C6: every call that ends has one of four outcomes: a response, a risk
\* error, a validation error or a generation error.
C6_FourOutcomes ==
    \A r \in Ended :
        req[r].outcome \in {"response", "risk_error", "validation_error",
                            "generation_error"}

\* C7: the selected candidate has the maximum score of all the candidates and
\* is the earliest of those that have it, and every field of the response that
\* describes a candidate is that candidate's.
C7_FirstBestSelected ==
    \A r \in Selected :
        /\ \A j \in DOMAIN req[r].candidates :
              /\ RLe(req[r].candidates[j].score, Winner(r).score)
              /\ req[r].candidates[j].score = Winner(r).score => req[r].best <= j
        /\ req[r].outcome = "response"
              => /\ req[r].response.answer = Winner(r).answer
                 /\ req[r].response.reasoning_trace = Winner(r).trace
                 /\ req[r].response.faithfulness_score =
                       Winner(r).assessment.faithfulness_score
                 /\ req[r].response.coherence_score =
                       Winner(r).assessment.coherence_score
                 /\ req[r].response.risk_flag = Winner(r).assessment.risk_flag
                 /\ req[r].response.monitor_explanation =
                       Winner(r).assessment.monitor_explanation
                 /\ req[r].response.metadata.best_score = Winner(r).score
                 /\ req[r].response.metadata.components =
                       Winner(r).assessment.components

\* A response has been returned for the first of two different candidates
\* tied at the maximum.
C7_Witness ==
    \E r \in Selected :
        /\ req[r].outcome = "response"
        /\ Len(req[r].candidates) = 2
        /\ req[r].candidates[1].score = req[r].candidates[2].score
        /\ req[r].candidates[1] # req[r].candidates[2]
        /\ req[r].best = 1

(***************************************************************************)
(* Two modes, one request, one deterministic backend                       *)
(***************************************************************************)
\* Callers a and b have made the same request, a in live and b in dryrun mode,
\* and both calls have ended.
LiveAndDryrunEnded ==
    /\ req["a"].mode = "live" /\ req["b"].mode = "dryrun"
    /\ req["a"].input = req["b"].input
    /\ req["a"].context = req["b"].context
    /\ req["a"].request_id = req["b"].request_id
    /\ Ended = {"a", "b"}

\* C3 (as the code has it): for the same request and the same deterministic
\* backend, the live call fails with MonitoringError exactly when the dryrun
\* call returns a risk-flagged response; when the live call succeeds the two
\* responses differ in metadata.mode and, if the request supplied no
\* correlation id, in metadata.request_id, and in nothing else.
C3_LiveMatchesDryrun ==
    LiveAndDryrunEnded
      => LET live == req["a"]
             dry  == req["b"]
         IN  /\ (live.outcome = "risk_error" /\ live.error.type = "MonitoringError")
                    <=> (dry.outcome = "response" /\ dry.response.risk_flag)
             /\ live.outcome = "response"
                  => /\ dry.outcome = "response"
                     /\ [dry.response EXCEPT
                            !.metadata.mode = live.response.metadata.mode,
                            !.metadata.request_id = live.response.metadata.request_id]
                          = live.response
                     /\ live.response.metadata.mode = "live"
                     /\ dry.response.metadata.mode = "dryrun"
                     /\ live.request_id # ""
                          => dry.response.metadata.request_id
                                = live.response.metadata.request_id

\* Both calls of a request without a correlation id have returned a response.
C3_Witness ==
    /\ LiveAndDryrunEnded
    /\ req["a"].request_id = ""
    /\ req["a"].outcome = "response"
    /\ req["b"].outcome = "response"
    /\ Len(req["a"].candidates) = 2

\* C3 (as stated): when the live call succeeds the two responses differ only
\* in metadata.mode.
C3_DifferOnlyInMode ==
    (LiveAndDryrunEnded /\ req["a"].outcome = "response")
      => /\ req["b"].outcome = "response"
         /\ req["b"].response = [req["a"].response EXCEPT !.metadata.mode = "dryrun"]

(***************************************************************************)
(* Properties of CoTMonitor.assess                                         *)
(***************************************************************************)
\* C8: when every backend score is in [0,1] or a failure, the two scores and
\* the four components of the assessment lie in [0,1].
C8_ScoresInUnit ==
    mon.pc = "returned"
      => /\ InUnit(mon.assessment.faithfulness_score)
         /\ InUnit(mon.assessment.coherence_score)
         /\ InUnit(mon.assessment.components.counterfactual_influence)
         /\ InUnit(mon.assessment.components.step_entailment)
         /\ InUnit(mon.assessment.components.coherence)
         /\ InUnit(mon.assessment.components.obfuscation)

\* An assessment of a trace of several steps whose raw faithfulness is
\* negative: no support for the answer, and full obfuscation.
C8_Witness ==
    /\ mon.pc = "returned"
    /\ Len(mon.trace) = MaxTraceLen
    /\ mon.calls.entail = MaxTraceLen
    /\ mon.assessment.components.step_entailment = RInt(0)
    /\ mon.assessment.components.obfuscation = RInt(1)
    /\ RLt(mon.assessment.components.counterfactual_influence, Rat(1, 2))
    /\ mon.assessment.faithfulness_score = RInt(0)

\* C9: the mock adapter's score_text_entailment and classify_obfuscation
\* return values in [0,1].
C9_MockScoresInUnit ==
    /\ mock.entailment.ok => InUnit(mock.entailment.v)
    /\ mock.obfuscation.ok => InUnit(mock.obfuscation.v)

\* C10: assess on an empty trace returns, for any answer and any thresholds,
\* the fixed assessment, and makes no backend call.
C10_EmptyTraceFixed ==
    (mon.pc = "returned" /\ mon.trace = <<>>)
      => /\ mon.assessment.faithfulness_score = RInt(0)
         /\ mon.assessment.coherence_score = RInt(0)
         /\ mon.assessment.risk_flag
         /\ mon.assessment.monitor_explanation = "Empty reasoning trace detected"
         /\ mon.assessment.components =
               [counterfactual_influence |-> RInt(0), step_entailment |-> RInt(0),
                coherence |-> RInt(0), obfuscation |-> RInt(1)]
         /\ mon.calls = [entail |-> 0, obf |-> 0]

\* An assess of an empty trace and a non-empty answer has returned, on a
\* monitor constructed with thresholds of its own.
C10_Witness ==
    /\ mon.pc = "returned"
    /\ mon.trace = <<>>
    /\ mon.answer # ""
    /\ thresholds # DefaultThresholds

\* C11 (as the code has it): _compute_coherence returns 1 for every trace of
\* at most one step; the coherence score and the coherence component that
\* assess reports are 1 for a trace of one step and 0 for the empty trace.
C11_ShortTraceCoherence ==
    /\ (mon.coherence.ok /\ Len(mon.trace) <= 1) => mon.coherence.v = RInt(1)
    /\ (mon.pc = "returned" /\ Len(mon.trace) = 1)
          => /\ mon.assessment.coherence_score = RInt(1)
             /\ mon.assessment.components.coherence = RInt(1)
    /\ (mon.pc = "returned" /\ mon.trace = <<>>)
          => /\ mon.assessment.coherence_score = RInt(0)
             /\ mon.assessment.components.coherence = RInt(0)

\* The empty trace has been assessed, on a monitor with the default thresholds.
C11_Witness ==
    /\ mon.pc = "returned"
    /\ mon.trace = <<>>
    /\ thresholds = DefaultThresholds
    /\ mon.assessment.coherence_score = RInt(0)
    /\ mon.assessment.components.coherence = RInt(0)

\* C11 (as stated): the coherence score of every trace of at most one step is 1.
C11_ShortTraceCoherenceIsOne ==
    (mon.pc = "returned" /\ Len(mon.trace) <= 1)
      => mon.assessment.coherence_score = RInt(1)

\* The calls of reason that have returned a response.
Responded == {r \in Ended : req[r].outcome = "response"}

\* C16: every response carries the requested mode, the number of traces that
\* generation returned (each of them evaluated), a non-empty reasoning trace,
\* and as request id the correlation id of the request when it has one and
\* otherwise a non-empty id that no request supplied.
C16_ResponseMetadata ==
    \A r \in Responded :
        /\ req[r].response.metadata.mode = req[r].mode
        /\ req[r].response.metadata.n_candidates = Len(req[r].traces)
        /\ Len(req[r].candidates) = Len(req[r].traces)
        /\ req[r].response.reasoning_trace # <<>>
        /\ req[r].request_id # ""
              => req[r].response.metadata.request_id = req[r].request_id
        /\ req[r].request_id = ""
              => /\ req[r].response.metadata.request_id # ""
                 /\ \A q \in Requests :
                       req[r].response.metadata.request_id # q.request_id

\* A request without a correlation id got a response when generation returned
\* fewer traces than the agent is configured for.
C16_Witness ==
    \E r \in Responded :
        /\ req[r].request_id = ""
        /\ req[r].response.metadata.request_id = "uuid-0"
        /\ Len(req[r].traces) < n_candidates
        /\ req[r].response.metadata.n_candidates = 1

(***************************************************************************)
(* Properties of the pure functions                                        *)
(***************************************************************************)
\* The 0-based indices of trace that removed_indices does not name.
KeptIndices(trace, removed_indices) ==
    {i \in 0..(Len(trace) - 1) :
        \A k \in DOMAIN removed_indices : removed_indices[k] # i}

\* result holds the steps of trace at the kept indices, in their order.
HoldsKeptSteps(trace, removed_indices, result) ==
    LET kept == KeptIndices(trace, removed_indices)
    IN  /\ Len(result) = Cardinality(kept)
        /\ \A i \in kept :
              result[1 + Cardinality({j \in kept : j < i})] = trace[i + 1]

\* C12: a call of perturb_trace returns exactly the steps of the trace whose
\* index is not among the removed indices, in their original order, whatever
\* the indices are (repeated or out of range); it leaves the trace it was
\* given unchanged, and the result for the empty trace is empty.
C12_PerturbTraceKeepsOthers ==
    [][(calc.op = "perturb_trace" /\ calc'.result.ok)
         => /\ calc'.trace = calc.trace
            /\ calc'.removed_indices = calc.removed_indices
            /\ HoldsKeptSteps(calc.trace, calc.removed_indices, calc'.result.v)
            /\ (calc.trace = <<>> => calc'.result.v = <<>>)]_vars

\* perturb_trace has returned some but not all steps of a trace for indices
\* with a repeated one and one out of range.
C12_Witness ==
    /\ calc.op = "perturb_trace"
    /\ calc.result.ok
    /\ \E j, k \in DOMAIN calc.removed_indices :
          j # k /\ calc.removed_indices[j] = calc.removed_indices[k]
    /\ \E k \in DOMAIN calc.removed_indices :
          calc.removed_indices[k] \notin 0..(Len(calc.trace) - 1)
    /\ calc.result.v # <<>>
    /\ Len(calc.result.v) < Len(calc.trace)

\* C14: every candidate score computed lies in [0, 1], and for the same
\* faithfulness and coherence the score with the risk flag set is at most
\* the score without it.
C14_ScoreInUnitAndMonotone ==
    /\ calc.score.flagged.ok => InUnit(calc.score.flagged.v)
    /\ calc.score.unflagged.ok => InUnit(calc.score.unflagged.v)
    /\ (calc.score.flagged.ok /\ calc.score.unflagged.ok)
          => RLe(calc.score.flagged.v, calc.score.unflagged.v)

\* Both scores of one pair of faithfulness and coherence are computed and
\* the risk flag made the score strictly smaller.
C14_Witness ==
    /\ calc.op = "calculate_candidate_score"
    /\ calc.score.flagged.ok
    /\ calc.score.unflagged.ok
    /\ RLt(calc.score.flagged.v, calc.score.unflagged.v)

(***************************************************************************)
(* Properties of run_perturbation_experiments                              *)
(***************************************************************************)
\* The removed steps of a trial are distinct indices of the trace, at least
\* one and at most min(3, len(trace) - 1) of them.
RemovesWithinLimit(trial, trace) ==
    /\ \A i \in DOMAIN trial.removed_steps :
          trial.removed_steps[i] \in 0..(Len(trace) - 1)
    /\ \A i, j \in DOMAIN trial.removed_steps :
          i # j => trial.removed_steps[i] # trial.removed_steps[j]
    /\ Len(trial.removed_steps) >= 1
    /\ Len(trial.removed_steps) <= max_remove(trace)
    /\ Len(trial.removed_steps) < Len(trace)

\* C13 (as stated): a call of run_perturbation_experiments on a non-empty
\* trace with n_trials = k neither raises nor stops early; it returns k
\* trials, each removing between 1 and min(3, len(trace) - 1) distinct
\* in-range indices, and a causal influence score of changed trials over k.
C13_ReturnsAllTrials ==
    (px.trace # <<>> /\ px.pc \in {"trial", "returned", "raised"})
      => /\ px.pc # "raised"
         /\ \A i \in DOMAIN px.perturbed_answers :
               RemovesWithinLimit(px.perturbed_answers[i], px.trace)
         /\ px.pc = "returned"
               => /\ Len(px.perturbed_answers) = px.n_trials
                  /\ px.result.n_perturbed_answers = px.n_trials
                  /\ px.result.causal_influence_score =
                         Rat(ChangedCount(px.perturbed_answers), px.n_trials)

\* C19 (as stated): no trial of run_perturbation_experiments removes more
\* steps than the configured perturb_steps_max.
C19_AtMostPerturbStepsMax ==
    \A i \in DOMAIN px.perturbed_answers :
        Len(px.perturbed_answers[i].removed_steps) <= config.perturb_steps_max

(***************************************************************************)
(* Properties of CoTMonitor.assess under backend failures                  *)
(***************************************************************************)
\* The steps whose score_text_entailment call failed, and those it scored 1
\* (a backend of this model scores 0 or 1).
FailedSteps == {i \in DOMAIN mon.ent : ~mon.ent[i].ok}

EntailedSteps == {i \in DOMAIN mon.ent : mon.ent[i] = Ok(RInt(1))}

\* C15: assess of a non-empty trace returns an assessment whichever backend
\* calls fail: the step entailment is the mean over the steps with every
\* failed call counted as 1/2, the coherence is that of the local pairwise
\* checks, and a failed classify_obfuscation call is replaced by the lexical
\* heuristic on the joined trace.
C15_BackendFailuresAbsorbed ==
    /\ mon.pc \in {"idle", "called", "computed", "returned"}
    /\ (mon.pc = "returned" /\ mon.trace # <<>>)
          => /\ mon.answer # ""
                   => mon.assessment.components.step_entailment =
                          Rat(2 * Cardinality(EntailedSteps) + Cardinality(FailedSteps),
                              2 * Len(mon.trace))
             /\ InUnit(mon.assessment.components.coherence)
             /\ mon.assessment.coherence_score = mon.assessment.components.coherence
             /\ mon.assessment.components.obfuscation =
                   IF mon.obf.ok THEN mon.obf.v
                   ELSE lexical_obfuscation_heuristic(Join(mon.trace, " "))
             /\ mon.assessment.monitor_explanation # ""

\* An assess has returned although one of its entailment calls and its
\* obfuscation call failed, while another entailment call succeeded.
C15_Witness ==
    /\ mon.pc = "returned"
    /\ mon.answer # ""
    /\ FailedSteps # {}
    /\ EntailedSteps # {}
    /\ ~mon.obf.ok
    /\ lexical_obfuscation_heuristic(Join(mon.trace, " ")) # RInt(0)

\* C17: the risk flag of an assessment of a non-empty trace is set exactly
\* when the faithfulness score is below the faithfulness threshold, or the
\* coherence score is below the coherence threshold, or the obfuscation
\* component is above the obfuscation threshold; a value equal to its
\* threshold does not set it.
C17_RiskFlagStrict ==
    (mon.pc = "returned" /\ mon.trace # <<>>)
      => (mon.assessment.risk_flag
            <=> \/ RLt(mon.assessment.faithfulness_score, thresholds["faithfulness"])
                \/ RLt(mon.assessment.coherence_score, thresholds["coherence"])
                \/ RLt(thresholds["obfuscation"], mon.assessment.components.obfuscation))

\* An assessment whose three values equal their thresholds has no risk flag.
C17_Witness ==
    /\ mon.pc = "returned"
    /\ mon.trace # <<>>
    /\ mon.assessment.faithfulness_score = thresholds["faithfulness"]
    /\ mon.assessment.coherence_score = thresholds["coherence"]
    /\ mon.assessment.components.obfuscation = thresholds["obfuscation"]
    /\ ~mon.assessment.risk_flag

(***************************************************************************)
(* Properties of the configured thresholds                                 *)
(***************************************************************************)
\* C18 (as stated): the monitor built at startup compares against the
\* configured faithfulness and coherence thresholds: its risk flag is set
\* exactly when a score is below its configured threshold or the obfuscation
\* is above the obfuscation threshold.
C18_ConfiguredThresholdsUsed ==
    (mon.pc = "returned" /\ mon.trace # <<>>)
      => /\ thresholds["faithfulness"] = config.faithfulness_threshold
         /\ thresholds["coherence"] = config.coherence_threshold
         /\ mon.assessment.risk_flag
               <=> \/ RLt(mon.assessment.faithfulness_score, config.faithfulness_threshold)
                   \/ RLt(mon.assessment.coherence_score, config.coherence_threshold)
                   \/ RLt(thresholds["obfuscation"], mon.assessment.components.obfuscation)

\* C20 (as stated): the two-step trace whose second step negates the first is
\* assessed, with the default thresholds, with a coherence score below 0.5, a
\* risk flag and a "Low coherence" explanation.
C20_ContradictionFlagged ==
    (mon.pc = "returned" /\ mon.trace \in ContradictoryTraces
        /\ thresholds = DefaultThresholds)
      => /\ RLt(mon.assessment.coherence_score, Rat(1, 2))
         /\ mon.assessment.risk_flag
         /\ Contains(mon.assessment.monitor_explanation, "Low coherence")

(***************************************************************************)
(* Properties of the reason route                                          *)
(***************************************************************************)
\* C21: a request answered by a route that has its agent gets 422 for an
\* empty input, without the agent being called; otherwise the agent is called
\* and the answer is 200 with its response, 409 for a MonitoringError raised
\* in live mode and 500 for any other failure, so that 409 is only ever the
\* answer to a live request.
C21_RouteStatus ==
    (http.pc = "done" /\ http.agent_set)
      => /\ http.request.input = ""
               => /\ http.status = 422
                  /\ ~http.agent_called
                  /\ req["a"] = NoCall
         /\ http.request.input # ""
               => /\ http.agent_called
                  /\ req["a"].pc = "done"
                  /\ req["a"].outcome = "response" <=> http.status = 200
                  /\ (req["a"].outcome = "risk_error" /\ http.mode = "live")
                         <=> http.status = 409
                  /\ req["a"].outcome \notin {"response", "risk_error"}
                         => http.status = 500
         /\ http.status \in {200, 409, 422, 500}
         /\ http.status = 409 => http.mode = "live"

\* A live request was answered 409 after the agent raised its MonitoringError.
C21_Witness ==
    /\ http.pc = "done"
    /\ http.status = 409
    /\ req["a"].error.type = "MonitoringError"
    /\ http.detail # ""

(***************************************************************************)
(* Properties of the explanation                                           *)
(***************************************************************************)
\* s ends with k.
EndsWith(s, k) == Len(k) <= Len(s) /\ SubSeq(s, Len(s) - Len(k) + 1, Len(s)) = k

\* The number of places of s where k occurs.
Occurrences(s, k) == Cardinality({i \in 1..Len(s) : MatchesAt(s, k, i)})

\* The band of a score: High from 0.8, Moderate from 0.6, Low below.
Band(score) ==
    IF RLe(Rat(8, 10), score) THEN "High"
    ELSE IF RLe(Rat(6, 10), score) THEN "Moderate" ELSE "Low"

C23_OneEntailmentCallPerStep ==
    (mon.pc = "returned" /\ mon.trace # <<>>)
      => /\ mon.calls.entail = Len(mon.trace)
         /\ Len(mon.trace) * mon.assessment.components.step_entailment[1] * 2 =
               (2 * Cardinality(EntailedSteps) + Cardinality(FailedSteps))
                  * mon.assessment.components.step_entailment[2]

(***************************************************************************)
(* Properties of finalize_answer and generate_cot                          *)
(***************************************************************************)
\* The last step of the trace finalize_answer was called with has a
\* conclusion signal, in any case.
LastStepConcludes ==
    \E w \in {"therefore", "thus", "so", "answer is", "result is"} :
        Contains(Lower(calc.trace[Len(calc.trace)]), w)

\* C24: finalize_answer returns "" for the empty trace and the last step as
\* it is when that step has a conclusion signal, both without a backend call;
\* otherwise it makes one generate call for one completion and returns the
\* completion trimmed, or the last step when the call fails or yields nothing.
C24_FinalizeAnswer ==
    (calc.op = "finalize_answer" /\ calc.result.ok)
      => /\ calc.generate_calls <= 1
         /\ calc.trace = <<>>
               => calc.result.v = "" /\ calc.generate_calls = 0
         /\ (calc.trace # <<>> /\ LastStepConcludes)
               => /\ calc.result.v = calc.trace[Len(calc.trace)]
                  /\ calc.generate_calls = 0
         /\ (calc.trace # <<>> /\ ~LastStepConcludes)
               => /\ calc.generate_calls = 1
                  /\ (calc.gen.ok /\ calc.gen.v # <<>>)
                        => /\ calc.result.v \in {"Paris", "London"}
                           /\ Contains(calc.gen.v[1], calc.result.v)
                  /\ ~(calc.gen.ok /\ calc.gen.v # <<>>)
                        => calc.result.v = calc.trace[Len(calc.trace)]

\* finalize_answer returned a trimmed completion, shorter than what the
\* backend sent.
C24_Witness ==
    /\ calc.op = "finalize_answer"
    /\ calc.result.ok
    /\ calc.generate_calls = 1
    /\ calc.gen.ok
    /\ calc.gen.v # <<>>
    /\ calc.result.v = "Paris"
    /\ Len(calc.gen.v[1]) > Len(calc.result.v)

\* The trace each completion of CotPool is to become.
ExpectedTrace(response) ==
    CASE response = "Step 1: Paris is in France.\nstep 2:  So Paris. \nConclusion: Paris"
            -> <<"Paris is in France.", "So Paris.">>
      [] response = "Paris is big. Also old!" -> <<"Paris is big", "Also old">>
      [] response = " Conclusion: Paris " -> <<"Conclusion: Paris">>
      [] response = " \n" -> <<"">>

InOrder(r) ==
    LET log == req[r].log
    IN  \A i \in DOMAIN log :
          /\ log[i] = "generate_cot" <=> i = 1
          /\ log[i] = "finalize_answer"
                => /\ i % 2 = 0
                   /\ i <= 2 * Len(req[r].traces)
                   /\ \A j \in 1..i : log[j] # "select"
          /\ log[i] = "assess" => i > 1 /\ i % 2 = 1 /\ log[i - 1] = "finalize_answer"
          /\ log[i] = "select"
                => /\ i = 2 * Len(req[r].traces) + 2
                   /\ \A j \in (i + 1)..Len(log) : log[j] = "run_perturbation_experiments"
          /\ log[i] = "run_perturbation_experiments"
                => /\ req[r].mode = "perturb"
                   /\ i = Len(log)
                   /\ log[i - 1] = "select"
                   /\ req[r].candidates[req[r].best].trace \in Range(req[r].traces)

\* C26: the steps of a request occur in the order generation, finalize_answer
\* and assess per candidate in generation order, selection, experiments in
\* perturb mode only; generation is called once, and a response carries a
\* perturbation result exactly when the mode is perturb.
C26_StepOrder ==
    \A r \in Callers :
        /\ InOrder(r)
        /\ \A k \in DOMAIN req[r].candidates :
              req[r].candidates[k].trace = req[r].traces[k]
        /\ r \in Responded
              => /\ req[r].log[1] = "generate_cot"
                 /\ Len(req[r].candidates) = Len(req[r].traces)
                 /\ Len(req[r].log) = 2 * Len(req[r].traces) + 2
                                        + (IF req[r].mode = "perturb" THEN 1 ELSE 0)
                 /\ (req[r].response.perturbation.kind = "result")
                        <=> (req[r].mode = "perturb")

\* A perturb request over two candidates was answered, after six calls.
C26_Witness ==
    \E r \in Callers :
        /\ r \in Responded
        /\ req[r].mode = "perturb"
        /\ Len(req[r].candidates) = 2
        /\ req[r].log = <<"generate_cot", "finalize_answer", "assess", "finalize_answer",
                          "assess", "select", "run_perturbation_experiments">>
        /\ req[r].response.perturbation.kind = "result"

(***************************************************************************)
(* The networked adapters: generate and the retry loop of one backend call *)
(***************************************************************************)
\* `max_retries: int = 3` of _call_openai and _call_gemini
max_retries == 3

\* The most completions asked of generate.
MaxCompletions == 2

Adapters == {"openai", "gemini"}

\* How one attempt may end: with a completion, with a status other than 200
\* (the HTTP adapter only), or with an exception.
AttemptOutcomes(adapter) ==
    IF adapter = "openai" THEN {"ok", "status", "raise"} ELSE {"ok", "raise"}

\* The texts a backend may send.
NetTexts == {" Paris \n", "London"}

\* The backoff test as it would be if it also held after the last attempt.
backoff_due_always(attempt) == TRUE

\* `if attempt < max_retries - 1`
backoff_due(attempt) == attempt < max_retries - 1

\* `2 ** attempt`
backoff_seconds(attempt) == 2 ^ attempt

\* The message of the exception raised after the loop.
retries_exhausted(adapter) ==
    (IF adapter = "openai" THEN "OpenAI" ELSE "Gemini") \o " API call failed after all retries"

\* The next iteration of `for attempt in range(max_retries)`, or the raise
\* after the loop.
NextAttempt(c) ==
    IF c.attempt + 1 < max_retries
    THEN [c EXCEPT !.attempt = @ + 1, !.pc = "attempt"]
    ELSE [c EXCEPT !.pc = "failed", !.error = retries_exhausted(c.adapter)]

InitNet ==
    /\ thresholds = CoTMonitorThresholds(<<>>)
    /\ n_candidates = AgentCandidates(ConfiguredCandidates)
    /\ backend = NewBackend(TRUE)
    /\ next_uuid = 0
    /\ http = NoRoute
    /\ events = NoEvents
    /\ req = [r \in Callers |-> NoCall]
    /\ mon = NoAssess
    /\ mock = NoMock
    /\ config = DefaultConfig
    /\ px = NoExperiment
    /\ calc = NoCalc
    /\ \E adapter \in Adapters, n \in 0..MaxCompletions :
          net = [NoNet EXCEPT !.pc = "generate", !.adapter = adapter, !.n = n]

\* generate(prompt, n): the head of `for i in range(n)` and the return.
NetGenerate ==
    /\ net.pc = "generate"
    /\ net' = IF Len(net.responses) = net.n
              THEN [net EXCEPT !.pc = "returned"]
              ELSE [net EXCEPT !.pc = "attempt", !.attempt = 0,
                               !.sleeps = <<>>, !.outcomes = <<>>]
    /\ UNCHANGED <<http, events, config, px, calc, thresholds, n_candidates, backend,
                   next_uuid, req, mon, mock>>

\* One attempt of _call_openai or _call_gemini, up to its await of sleep.
NetAttempt ==
    /\ net.pc = "attempt"
    /\ \E outcome \in AttemptOutcomes(net.adapter), text \in NetTexts :
          LET made == [net EXCEPT !.outcomes = Append(@, outcome)]
          IN  net' = IF outcome = "ok"
                     THEN [made EXCEPT !.responses = Append(@, Strip(text)),
                                       !.pc = "generate"]
                     ELSE IF backoff_due(net.attempt)
                     THEN [made EXCEPT !.pc = "sleep"]
                     ELSE NextAttempt(made)
    /\ UNCHANGED <<http, events, config, px, calc, thresholds, n_candidates, backend,
                   next_uuid, req, mon, mock>>

\* `await asyncio.sleep(2 ** attempt)` returns.
NetSleep ==
    /\ net.pc = "sleep"
    /\ net' = NextAttempt([net EXCEPT !.sleeps = Append(@, backoff_seconds(net.attempt))])
    /\ UNCHANGED <<http, events, config, px, calc, thresholds, n_candidates, backend,
                   next_uuid, req, mon, mock>>

NextNet == NetGenerate \/ NetAttempt \/ NetSleep

SpecNet == InitNet /\ [][NextNet]_vars

\* Every attempt and every sleep ends: the HTTP client has a timeout and the
\* event loop wakes the sleeper.
SpecNetFair == SpecNet /\ WF_vars(NextNet)

\* The attempts of the call under way or just over that failed.
FailedAttempts == {i \in DOMAIN net.outcomes : net.outcomes[i] # "ok"}

\* One backend call makes at most max_retries attempts, stops at the first
\* that succeeds, sleeps 1 s then 2 s between attempts only, and fails after
\* the last failed attempt; generate returns n completions or fails.
RetryBounded ==
    /\ Len(net.outcomes) <= 3
    /\ \A i \in DOMAIN net.outcomes : net.outcomes[i] = "ok" => i = Len(net.outcomes)
    /\ net.sleeps \in {<<>>, <<1>>, <<1, 2>>}
    /\ Len(net.sleeps) <= Cardinality(FailedAttempts)
    /\ net.pc \in {"attempt", "generate", "returned"}
          => Len(net.sleeps) = Cardinality(FailedAttempts)
    /\ net.pc = "failed"
          => /\ Cardinality(FailedAttempts) = 3
             /\ net.sleeps = <<1, 2>>
             /\ net.error # ""
             /\ Len(net.responses) < net.n
    /\ net.pc = "returned"
          => /\ Len(net.responses) = net.n
             /\ net.error = ""
             /\ \A i \in DOMAIN net.responses : net.responses[i] \in {"Paris", "London"}

\* C27: a backend call of a networked adapter ends after at most 3 attempts,
\* returning at the first success, sleeping 1 s and 2 s between attempts and
\* never after the last, and failing after the third failure; generate
\* returns exactly n completions or fails as a whole, and it always ends.
C27_RetryTerminates == []RetryBounded /\ <>(net.pc \in {"returned", "failed"})

\* The second call of generate failed three times, after both sleeps.
C27_Witness ==
    /\ net.pc = "failed"
    /\ net.n = 2
    /\ Len(net.responses) = 1
    /\ net.outcomes = <<"raise", "status", "raise">>
    /\ net.sleeps = <<1, 2>>

(***************************************************************************)
(* Requests under way at once                                              *)
(***************************************************************************)
\* What reason does for request c when it runs alone against the backend:
\* its traces, the answer and the candidate of each trace, and how it ends.
AloneGen(c) == backend.gen[<<CotPrompt(c.input, c.context), n_candidates>>]

AloneTraces(c) == ParseResponses(AloneGen(c).v)

AloneAnswer(trace) ==
    finalize_answer(trace, IF FinalizeNeedsBackend(trace)
                           THEN backend.gen[<<FinalizePrompt(trace), 1>>] ELSE GenFailed)

AloneEnt(trace, answer) ==
    [i \in DOMAIN trace |->
        IF EntailmentCalls(trace, answer) = 0 THEN Failed
        ELSE backend.ent[<<trace[i], answer>>]]

AloneObf(trace) == IF trace = <<>> THEN Failed ELSE backend.obf[Join(trace, " ")]

AloneCandidate(trace) ==
    Candidate(trace, AloneAnswer(trace),
              assess(trace, AloneAnswer(trace), thresholds,
                     AloneEnt(trace, AloneAnswer(trace)), AloneObf(trace)))

AloneCandidates(c) == [k \in DOMAIN AloneTraces(c) |-> AloneCandidate(AloneTraces(c)[k])]

\* Request c ended as reason ends once best is its best candidate: blocked
\* in live mode when best is flagged, answered from best otherwise.
EndsFrom(c, best) ==
    /\ c.outcome = IF c.mode = "live" /\ best.assessment.risk_flag THEN "risk_error"
                   ELSE IF ~response_valid(best.assessment) THEN "response_invalid"
                   ELSE "response"
    /\ c.outcome = "response"
          => /\ c.response.answer = best.answer
             /\ c.response.reasoning_trace = best.trace
             /\ c.response.faithfulness_score = best.assessment.faithfulness_score
             /\ c.response.coherence_score = best.assessment.coherence_score
             /\ c.response.risk_flag = best.assessment.risk_flag
             /\ c.response.metadata.n_candidates = Len(c.traces)

\* Request r ended as it would have ended alone.
EndedAsAlone(r) ==
    IF ~AloneGen(req[r]).ok THEN req[r].outcome = "backend_error"
    ELSE IF AloneTraces(req[r]) = <<>> THEN req[r].outcome = "generation_error"
    ELSE /\ req[r].traces = AloneTraces(req[r])
         /\ req[r].candidates = AloneCandidates(req[r])
         /\ EndsFrom(req[r], req[r].candidates[select_best(req[r].candidates)])

\* C28: two requests under way at once on one agent, interleaved at every
\* await, each end as they would alone against the same deterministic
\* backend, and in every state the thresholds and the number of candidates
\* are those the agent was constructed with.
C28_ConcurrentAsAlone ==
    /\ \A r \in Callers : req[r].pc = "done" => EndedAsAlone(r)
    /\ thresholds = CoTMonitorThresholds(<<>>)
    /\ n_candidates = AgentCandidates(ConfiguredCandidates)

\* Request b was answered while request a, which started first and will be
\* blocked, was still between its two candidates.
C28_Witness ==
    /\ req["b"].pc = "done"
    /\ req["b"].outcome = "response"
    /\ req["b"].mode = "dryrun"
    /\ req["b"].response.risk_flag
    /\ req["a"].pc \in {"finalize", "assess"}
    /\ Len(req["a"].candidates) = 1
    /\ Len(req["a"].traces) = 2

(***************************************************************************)
(* The event store and GET /monitor/events                                 *)
(***************************************************************************)
\* The most events recorded.
MaxEvents == 3

\* The largest limit and offset asked for.
MaxLimit == 2

\* The events recorded: a reasoning id, a user and a model each.
EventPool ==
    [reasoning_id : {"r1", "r2", "r3"}, user_id : {"u1", "u2"}, model : {"m1", "m2"}]

\* The places of reasoning_id among the keys of reasoning_events.
KeyIndex(store, reasoning_id) ==
    {i \in DOMAIN store : store[i].reasoning_id = reasoning_id}

\* `reasoning_events[event.reasoning_id] = event`: a dict keeps the place of a
\* key it already holds.
record_event(store, event) ==
    IF KeyIndex(store, event.reasoning_id) = {}
    THEN Append(store, event)
    ELSE [store EXCEPT ![CHOOSE i \in KeyIndex(store, event.reasoning_id) : TRUE] = event]

\* The two filters of list_events; an empty filter lets every event pass.
filtered_events(store, user_id, model) ==
    LET Passes(event) ==
            /\ user_id # "" => event.user_id = user_id
            /\ model # "" => event.model = model
    IN  SelectSeq(store, Passes)

\* `l[offset : offset + limit]` for offset, limit >= 0
Slice(l, offset, limit) ==
    SubSeq(l, offset + 1, IF offset + limit < Len(l) THEN offset + limit ELSE Len(l))

\* events.list_events
list_events(store, limit, offset, user_id, model) ==
    Slice(filtered_events(store, user_id, model), offset, limit)

\* `has_more = len(event_list) == limit`
has_more(event_list, limit) == Len(event_list) = limit

InitEvents ==
    /\ thresholds = CoTMonitorThresholds(<<>>)
    /\ n_candidates = AgentCandidates(ConfiguredCandidates)
    /\ backend = NewBackend(TRUE)
    /\ next_uuid = 0
    /\ http = NoRoute
    /\ events = NoEvents
    /\ net = NoNet
    /\ req = [r \in Callers |-> NoCall]
    /\ mon = NoAssess
    /\ mock = NoMock
    /\ config = DefaultConfig
    /\ px = NoExperiment
    /\ calc = NoCalc

\* events.record_event(event, response)
RecordEvent ==
    /\ \E event \in EventPool :
          /\ Len(record_event(events.store, event)) <= MaxEvents
          /\ events' = [NoEvents EXCEPT !.store = record_event(events.store, event)]
    /\ UNCHANGED <<http, net, config, px, calc, thresholds, n_candidates, backend,
                   next_uuid, req, mon, mock>>

\* GET /monitor/events
ListEvents ==
    /\ \E limit \in 0..MaxLimit, offset \in 0..MaxLimit, user_id \in {"", "u1"},
         model \in {"", "m1"} :
          LET event_list == list_events(events.store, limit, offset, user_id, model)
          IN  events' = [events EXCEPT !.pc = "listed", !.limit = limit,
                                       !.offset = offset, !.user_id = user_id,
                                       !.model = model, !.page = event_list,
                                       !.has_more = has_more(event_list, limit)]
    /\ UNCHANGED <<http, net, config, px, calc, thresholds, n_candidates, backend,
                   next_uuid, req, mon, mock>>

NextEvents == RecordEvent \/ ListEvents

SpecEvents == InitEvents /\ [][NextEvents]_vars

\* The stored events that pass the filters of the listing, in stored order.
Matching ==
    SelectSeq(events.store,
              LAMBDA event : /\ events.user_id # "" => event.user_id = events.user_id
                             /\ events.model # "" => event.model = events.model)

\* C29 (as stated): has_more is true exactly when events that match the
\* filters exist beyond the returned page, and the page holds at most limit
\* events, those from offset on.
C29_HasMoreExact ==
    events.pc = "listed"
      => /\ events.has_more <=> Len(Matching) > events.offset + Len(events.page)
         /\ Len(events.page) <= events.limit
         /\ \A i \in DOMAIN events.page : events.page[i] = Matching[events.offset + i]

(***************************************************************************)
(* Selection and the risk flag                                             *)
(***************************************************************************)
\* C30 (as stated): when a candidate without the risk flag was evaluated, the
\* selected candidate has no risk flag, so a live request is blocked only
\* when every candidate has the flag.
C30_UnflaggedPreferred ==
    \A r \in Callers :
        /\ (req[r].best > 0 /\ \E j \in DOMAIN req[r].candidates :
                                  ~req[r].candidates[j].assessment.risk_flag)
              => ~req[r].candidates[req[r].best].assessment.risk_flag
        /\ (req[r].pc = "done" /\ req[r].outcome = "risk_error")
              => \A j \in DOMAIN req[r].candidates : req[r].candidates[j].assessment.risk_flag

====
